---------------------------- MODULE Spec2Model ----------------------------
(***************************************************************************)
(* ShareBuddy: a model of the peer-to-peer storage core.                   *)
(*                                                                         *)
(*   ReputationSystem   src/server/security/reputation.ts                  *)
(*   ErasureCoding      src/server/security/erasure-coding.ts              *)
(*   StorageController  src/unnamed/part_008                               *)
(*   P2PTunnel          src/server/p2p/tunnel.ts and src/unnamed/part_009  *)
(*                                                                         *)
(* Every subsystem has its own variables, its own initial predicate and    *)
(* its own next-state relation; a specification of one subsystem leaves    *)
(* the variables of the others unchanged.                                  *)
(*                                                                         *)
(* JavaScript numbers are IEEE doubles.  The model computes with exact     *)
(* rationals: a moving average is a pair (n, e) standing for n / 10^e, and *)
(* the composite score is rounded from an exact fraction.                  *)
(***************************************************************************)
EXTENDS Integers, Sequences, FiniteSets, TLC

VARIABLES
    repStore,    \* the ReputationScore kept for the node
    repCalls,    \* recordEvent calls: position, event, the score read, the score computed
    repApplied,  \* the events whose recordEvent has written back, in write order
    repInit,     \* the ReputationScore the run started from
    repLast      \* the last processEvent evaluation: [before, event, after]

repVars == <<repStore, repCalls, repApplied, repInit, repLast>>

VARIABLES
    ecData,      \* the buffer handed to encode
    ecLevel,     \* the reliability level of the layout
    ecPc,        \* "input", "encoded", "encodeThrew", "decoded", "decodeThrew"
    ecChunks,    \* the chunks encode returned
    ecMap,       \* the chunkMap handed to decode
    ecOut        \* the buffer decode returned

ecVars == <<ecData, ecLevel, ecPc, ecChunks, ecMap, ecOut>>

VARIABLES
    files,        \* files table: id -> [status, userId, uploaded]
    storageNodes, \* storage_nodes table: id -> [status, reputation, storageAvailable]
    fileChunks,   \* file_chunks table: a set of rows
    chunkPlacements, \* chunk_placements table: a set of rows, key (chunkId, nodeId)
    distCalls,    \* processFileForDistribution calls: position, arguments, locals, result
    nodeFlips     \* the status changes other components have made to storage nodes

fileVars == <<files, fileChunks, chunkPlacements, distCalls, nodeFlips>>
distVars == <<fileVars, storageNodes>>

VARIABLES
    impl,            \* the P2PTunnel class that runs: "tunnel" (src/server/p2p/tunnel.ts)
                     \* or "part_009" (src/unnamed/part_009)
    sock,            \* connection -> "none", "open", "closing" (close() called), "closed"
    listener,        \* connection -> the 'message' listener attached: "auth", "msg", "none"
    hooked,          \* connection -> setupMessageHandling of tunnel.ts has attached its
                     \* 'close' listener and its heartbeat interval
    peerIdOf,        \* connection -> the peerId it was registered under at auth, or ""
    connectedPeers,  \* Map peerId -> connection
    peerMetadata,    \* Map peerId -> metadata, as its entries in insertion order
    pending,         \* the continuations suspended on a database operation
    outbox,          \* connection -> the frames delivered to its peer
    effects,         \* connection -> the arrival numbers of its frames, one for every
                     \* effect (frame delivered, row written), in the order they happened
    peerConnections, \* peer_connections table: a set of rows
    frameCount,      \* connection -> frames received from its peer
    lastFrameAt,     \* connection -> when a handler last stamped a frame of it
    now,             \* the clock, in ms
    connectedAt,     \* connection -> when it was accepted
    timerFired,      \* connection -> its authentication timer has run
    advances,        \* how often the clock has been advanced
    sweeps,          \* how often performHealthChecks has run
    timed            \* the run is long enough for timers to fire

tunVars == <<impl, sock, listener, hooked, peerIdOf, connectedPeers, peerMetadata, pending,
             outbox, effects, peerConnections, frameCount, lastFrameAt, now, connectedAt,
             timerFired, advances, sweeps, timed>>

VARIABLES
    copyMode,    \* how the runtime's Buffer.copy takes a sourceStart beyond the source:
                 \* "strict" (RangeError), "lenient" (copies nothing), "unset" (not yet met)
    sendMode     \* how the ws library takes send() on a socket that is not open:
                 \* "throws", "drops" (returns), "unset" (not yet met)

envVars == <<copyMode, sendMode>>

VARIABLES
    retCalls     \* the retrieveFile calls of StorageController: their position and result

retVars == <<retCalls>>

VARIABLES
    socket,             \* P2PClient.socket: the WebSocket it refers to, 0 if null
    wsState,            \* WebSocket -> "none" (not created), "connecting", "open",
                        \* "closing" (close() called), "closed" (close event handled)
    socketGen,          \* how many WebSocket objects the client has created
    cliPeerId,          \* P2PClient.peerId: "" if null
    reconnectAttempts,  \* P2PClient.reconnectAttempts
    reconnectTimeout,   \* P2PClient.reconnectTimeout: the timer whose handle is
                        \* stored, -1 if none
    timers,             \* the reconnect timers that are set and have not run
    cliCalls,           \* the discoverPeers and requestChunk calls: their promise,
                        \* their 'message' listener and their timer
    cliSent,            \* the frames the client has sent
    cliInbox,           \* the frames the client has received, with the socket they came on
    cliNow,             \* the clock of the browser, in ms
    cliCloses,          \* how many close events have been handled
    autoReconnects,     \* the reconnects scheduled since the last auth_success
    userClosed          \* disconnect() was called and connect() has not been since

cliVars == <<socket, wsState, socketGen, cliPeerId, reconnectAttempts, reconnectTimeout,
             timers, cliCalls, cliSent, cliInbox, cliNow, cliCloses, autoReconnects,
             userClosed>>

sideVars == <<retVars, cliVars>>

vars == <<repVars, ecVars, distVars, tunVars, envVars, sideVars>>

\* what a step of one subsystem leaves alone
RepFrame == UNCHANGED <<ecVars, distVars, tunVars, envVars, sideVars>>
EcFrame == UNCHANGED <<repVars, distVars, tunVars, envVars, sideVars>>
DistFrame == UNCHANGED <<repVars, ecVars, tunVars, envVars, sideVars>>
TunFrame == UNCHANGED <<repVars, ecVars, fileVars, copyMode, sideVars>>
RetFrame == UNCHANGED <<repVars, ecVars, distVars, tunVars, envVars, cliVars>>
CliFrame == UNCHANGED <<repVars, ecVars, distVars, tunVars, envVars, retVars>>

Max(a, b) == IF a >= b THEN a ELSE b
Min(a, b) == IF a <= b THEN a ELSE b

RECURSIVE Pow10(_)
Pow10(e) == IF e = 0 THEN 1 ELSE 10 * Pow10(e - 1)

\* ceil(a / b) for a >= 0, b > 0
CeilDiv(a, b) == (a + b - 1) \div b

(***************************************************************************)
(* ReputationSystem                                                        *)
(***************************************************************************)

\* the number of recordEvent calls of a run
MaxEvents == 3

EventTypes == {"chunk_stored", "chunk_retrieved", "chunk_lost", "uptime_check", "latency_check"}

\* event.details?.responseTime: NoDetail stands for an event without the field
NoDetail == -1
Latencies == {NoDetail, 0, 400, 9000}

\* the fields processEvent never reads for a type are left at one value
Events ==
    {e \in [eventType : EventTypes, successful : BOOLEAN, responseTime : Latencies] :
        /\ e.eventType # "latency_check" => e.responseTime = NoDetail
        /\ e.eventType \in {"chunk_stored", "latency_check"} => e.successful}

\* a moving average n / 10^e
Dec(n) == [n |-> n, e |-> 0]

\* a moving average that adds the sample at full weight
EmaUnweighted(old, sample) == [n |-> 9 * old.n + 10 * sample * Pow10(old.e), e |-> old.e + 1]

\* 0.9 * old + 0.1 * sample
Ema(old, sample) == [n |-> 9 * old.n + sample * Pow10(old.e), e |-> old.e + 1]

\* a fraction n / d, d > 0
Frac(n, d) == [n |-> n, d |-> d]

\* Math.max(0, Math.min(100, f))
Clamp100(f) == IF f.n < 0 THEN Frac(0, 1)
               ELSE IF f.n > 100 * f.d THEN Frac(100, 1)
               ELSE f

\* Math.round: the nearest integer, a half rounded up
Round(f) == (2 * f.n + f.d) \div (2 * f.d)

\* 100 - (responseTime - 500) / 45, clamped
NormalizedResponseTime(rt) ==
    Clamp100(Frac(5000 * Pow10(rt.e) - rt.n, 45 * Pow10(rt.e)))

\* uptime 0.4, responseTime 0.2, retrievalSuccess 0.3, storageStability 0.1
WeightedSum(uptime, nrt, rsr, stab) ==
    LET d == Pow10(uptime.e) * nrt.d * rsr.d * stab.d
        n == 4 * uptime.n * nrt.d * rsr.d * stab.d
             + 2 * nrt.n * Pow10(uptime.e) * rsr.d * stab.d
             + 3 * rsr.n * Pow10(uptime.e) * nrt.d * stab.d
             + 1 * stab.n * Pow10(uptime.e) * nrt.d * rsr.d
    IN  Frac(n, 10 * d)

calculateScore(uptime, responseTime, retrievalSuccessRate, storageStability) ==
    Round(WeightedSum(uptime, NormalizedResponseTime(responseTime),
                      retrievalSuccessRate, storageStability))

\* successes / (successes + failures) * 100 || 100: NaN (0/0) and 0 are falsy
RetrievalSuccessRate(s, f) ==
    IF s + f = 0 THEN Frac(100, 1)
    ELSE IF s = 0 THEN Frac(100, 1)
    ELSE Frac(100 * s, s + f)

\* Math.max(0, 100 - failures / Math.max(1, stored) * 200)
StorageStability(f, t) ==
    LET m == Max(1, t)
    IN  IF 100 * m - 200 * f < 0 THEN Frac(0, 1) ELSE Frac(100 * m - 200 * f, m)

\* a switch whose every case counts a stored chunk and a failed retrieval
CountsEveryEvent(event, cur) ==
    [cur EXCEPT !.totalChunksStored = @ + 1, !.failedRetrievals = @ + 1]

\* the switch of processEvent: the metrics after the event
UpdatedMetrics(event, cur) ==
    CASE event.eventType = "chunk_stored" ->
           [cur EXCEPT !.totalChunksStored = @ + 1]
      [] event.eventType = "chunk_retrieved" ->
           IF event.successful
           THEN [cur EXCEPT !.successfulRetrievals = @ + 1]
           ELSE [cur EXCEPT !.failedRetrievals = @ + 1]
      [] event.eventType = "uptime_check" ->
           [cur EXCEPT !.uptime = Ema(@, IF event.successful THEN 100 ELSE 0)]
      [] event.eventType = "latency_check" ->
           IF event.responseTime # NoDetail /\ event.responseTime # 0
           THEN [cur EXCEPT !.responseTime = Ema(@, event.responseTime)]
           ELSE cur
      [] event.eventType = "chunk_lost" ->
           [cur EXCEPT !.failedRetrievals = @ + 1]

processEvent(event, currentScore) ==
    LET u == UpdatedMetrics(event, currentScore)
    IN  [u EXCEPT !.score =
             calculateScore(u.uptime, u.responseTime,
                            RetrievalSuccessRate(u.successfulRetrievals, u.failedRetrievals),
                            StorageStability(u.failedRetrievals, u.totalChunksStored))]

\* a test of the composite score alone
ReliableByScoreAlone(score) == score.score >= 70

\* score.score >= 70 && score.uptime >= 90
isProviderReliable(score) == score.score >= 70 /\ 10 * score.uptime.n >= 900 * Pow10(score.uptime.e)

getReliabilityTier(score) ==
    IF score >= 95 THEN "Platinum"
    ELSE IF score >= 85 THEN "Gold"
    ELSE IF score >= 75 THEN "Silver"
    ELSE IF score >= 60 THEN "Bronze"
    ELSE "Unproven"

\* the value of a moving average lies in [lo, hi]
DecWithin(x, lo, hi) == lo * Pow10(x.e) <= x.n /\ x.n <= hi * Pow10(x.e)

Recomputed(m) ==
    calculateScore(m.uptime, m.responseTime,
                   RetrievalSuccessRate(m.successfulRetrievals, m.failedRetrievals),
                   StorageStability(m.failedRetrievals, m.totalChunksStored))

\* the scores a run starts from: the defaults, and nodes with a history
InitialScores ==
    {[score |-> 0, uptime |-> Dec(u), responseTime |-> Dec(r),
      totalChunksStored |-> c[1], successfulRetrievals |-> c[2], failedRetrievals |-> c[3]] :
        u \in {0, 85, 100}, r \in {500, 6000}, c \in {<<0, 0, 0>>, <<1, 1, 1>>}}

RepCallIds == 1..MaxEvents

NoEvent == [eventType |-> "none", successful |-> FALSE, responseTime |-> NoDetail]

RepIdleCall == [pc |-> "idle", event |-> NoEvent, read |-> <<>>]

RepInit ==
    /\ \E s \in InitialScores :
          /\ repStore = [s EXCEPT !.score = Recomputed(s)]
          /\ repInit = [s EXCEPT !.score = Recomputed(s)]
    /\ repCalls = [c \in RepCallIds |-> RepIdleCall]
    /\ repApplied = <<>>
    /\ repLast = <<>>

\* recordEvent, first half: the call reads the node's current score
RepRead(c, ev) ==
    /\ repCalls[c].pc = "idle"
    /\ c > 1 => repCalls[c - 1].pc # "idle"
    /\ repCalls' = [repCalls EXCEPT ![c] = [pc |-> "read", event |-> ev, read |-> <<repStore>>]]
    /\ UNCHANGED <<repStore, repApplied, repInit, repLast>>
    /\ RepFrame

\* recordEvent, second half: processEvent on the score read, and the write back
RepWrite(c) ==
    /\ repCalls[c].pc = "read"
    /\ LET before == repCalls[c].read[1]
           after == processEvent(repCalls[c].event, before)
       IN  /\ repStore' = after
           /\ repLast' = <<[before |-> before, event |-> repCalls[c].event, after |-> after]>>
    /\ repCalls' = [repCalls EXCEPT ![c].pc = "done", ![c].read = <<>>]
    /\ repApplied' = Append(repApplied, repCalls[c].event)
    /\ UNCHANGED repInit
    /\ RepFrame

\* recordEvent with nothing else in flight: the events of a sequence, one at a time
RepRecord(ev) ==
    /\ Len(repApplied) < MaxEvents
    /\ LET after == processEvent(ev, repStore)
       IN  /\ repStore' = after
           /\ repLast' = <<[before |-> repStore, event |-> ev, after |-> after]>>
    /\ repApplied' = Append(repApplied, ev)
    /\ UNCHANGED <<repCalls, repInit>>
    /\ RepFrame

RepNext ==
    \E ev \in Events : RepRecord(ev)

RepConcNext ==
    \/ \E c \in RepCallIds, ev \in Events : RepRead(c, ev)
    \/ \E c \in RepCallIds : RepWrite(c)

(***************************************************************************)
(* ErasureCoding                                                           *)
(***************************************************************************)

\* the longest buffer of a run
MaxLen == 4

\* the byte values buffers are made of
ByteVals == {0, 1, 255}

RECURSIVE XorBits(_, _, _)
XorBits(a, b, w) ==
    IF w = 0 THEN 0
    ELSE (((a % 2) + (b % 2)) % 2) + 2 * XorBits(a \div 2, b \div 2, w - 1)

\* parityChunk[k] ^= chunks[j][k] on a Buffer: 8 bits
Xor(a, b) == XorBits(a, b, 8)

Buffers == UNION {[1..n -> ByteVals] : n \in 0..MaxLen}

ReliabilityLevels == 1..5

calculateOptimalChunks(fileSize, reliability) ==
    LET normalizedReliability == Max(1, Min(5, reliability))
        baseChunkSize ==
            IF fileSize < 1024 * 1024 THEN 64 * 1024
            ELSE IF fileSize < 10 * 1024 * 1024 THEN 256 * 1024
            ELSE IF fileSize < 100 * 1024 * 1024 THEN 1024 * 1024
            ELSE 4 * 1024 * 1024
        dataChunks == Max(3, CeilDiv(fileSize, baseChunkSize))
        parityChunks == Max(1, CeilDiv(dataChunks * normalizedReliability, 5))
    IN  [dataChunks |-> dataChunks, parityChunks |-> parityChunks]

\* Math.ceil(data.length / dataChunks)
ChunkSize(len, dataChunks) == CeilDiv(len, dataChunks)

\* data.copy(chunk, 0, start, end) with start beyond the end of the source: Node's
\* Buffer.copy either raises a RangeError (it checks sourceStart against the source
\* length first) or copies nothing (it checks sourceStart >= sourceEnd first),
\* depending on the release
CopyThrows(len, start) == copyMode = "strict" /\ start > len

\* data chunk i (from 0): Buffer.alloc(chunkSize) zero-filled, then data[start, end)
DataChunk(data, dataChunks, i) ==
    LET chunkSize == ChunkSize(Len(data), dataChunks)
        start == i * chunkSize
        end == Min(start + chunkSize, Len(data))
    IN  [k \in 1..chunkSize |-> IF start + k <= end THEN data[start + k] ELSE 0]

\* the XOR of the bytes at position k of the data chunks js, taken in order
RECURSIVE XorOver(_, _, _, _)
XorOver(chunks, k, j, keep) ==
    IF j = 0 THEN 0
    ELSE Xor(XorOver(chunks, k, j - 1, keep), IF keep[j] THEN chunks[j][k] ELSE 0)

\* parity chunk i (from 0) XORs data chunk j (from 0) unless (j + i) % parityChunks = 0
ParityChunk(chunks, dataChunks, parityChunks, chunkSize, i) ==
    LET keep == [j \in 1..dataChunks |-> ((j - 1) + i) % parityChunks # 0]
    IN  [k \in 1..chunkSize |-> XorOver(chunks, k, dataChunks, keep)]

EncodeThrows(data, dataChunks, parityChunks) ==
    \/ dataChunks <= 0
    \/ parityChunks <= 0
    \/ \E i \in 0..(dataChunks - 1) :
          CopyThrows(Len(data), i * ChunkSize(Len(data), dataChunks))

encode(data, dataChunks, parityChunks) ==
    LET chunkSize == ChunkSize(Len(data), dataChunks)
        dataPart == [j \in 1..dataChunks |-> DataChunk(data, dataChunks, j - 1)]
    IN  [c \in 1..(dataChunks + parityChunks) |->
            IF c <= dataChunks THEN dataPart[c]
            ELSE ParityChunk(dataPart, dataChunks, parityChunks, chunkSize,
                             c - dataChunks - 1)]

RECURSIVE Concat(_, _)
Concat(chunks, n) == IF n = 0 THEN <<>> ELSE Concat(chunks, n - 1) \o chunks[n]

\* Buffer.slice(0, n)
Slice0(buf, n) == SubSeq(buf, 1, Min(n, Len(buf)))

AvailableChunks(chunkMap) == Cardinality({i \in DOMAIN chunkMap : chunkMap[i]})

\* the data chunks taken to be there
DataChunksAssumed(chunkMap, dataChunks) == TRUE

\* chunkMap.slice(0, dataChunks).every(Boolean)
AllDataChunksAvailable(chunkMap, dataChunks) ==
    \A i \in 1..Min(dataChunks, Len(chunkMap)) : chunkMap[i]

DecodeThrows(chunks, chunkMap, dataChunks) ==
    \/ AvailableChunks(chunkMap) < dataChunks
    \/ ~AllDataChunksAvailable(chunkMap, dataChunks)

\* the error decode throws: too few chunks available, or the reconstruction from
\* parity it does not implement
DecodeError(chunkMap, dataChunks) ==
    IF AvailableChunks(chunkMap) < dataChunks THEN "insufficient"
    ELSE IF ~AllDataChunksAvailable(chunkMap, dataChunks) THEN "notImplemented"
    ELSE "none"

decode(chunks, chunkMap, dataChunks, parityChunks, originalSize) ==
    Slice0(Concat(chunks, dataChunks), originalSize)

Layout == calculateOptimalChunks(Len(ecData), ecLevel)

EcInit ==
    /\ ecData \in Buffers
    /\ ecLevel \in ReliabilityLevels
    /\ ecPc = "input"
    /\ ecChunks = <<>>
    /\ ecMap = <<>>
    /\ ecOut = <<>>

\* encode(B, dataChunks, parityChunks) under the layout calculateOptimalChunks gives
EcEncode ==
    /\ ecPc = "input"
    /\ IF EncodeThrows(ecData, Layout.dataChunks, Layout.parityChunks)
       THEN ecPc' = "encodeThrew" /\ ecChunks' = <<>>
       ELSE /\ ecPc' = "encoded"
            /\ ecChunks' = encode(ecData, Layout.dataChunks, Layout.parityChunks)
    /\ UNCHANGED <<ecData, ecLevel, ecMap, ecOut>>
    /\ EcFrame

\* decode(chunks, chunkMap, dataChunks, parityChunks, originalSize)
EcDecode(chunkMap) ==
    /\ ecPc = "encoded"
    /\ ecMap' = chunkMap
    /\ IF DecodeThrows(ecChunks, chunkMap, Layout.dataChunks)
       THEN ecPc' = "decodeThrew" /\ ecOut' = <<>>
       ELSE /\ ecPc' = "decoded"
            /\ ecOut' = decode(ecChunks, chunkMap, Layout.dataChunks,
                               Layout.parityChunks, Len(ecData))
    /\ UNCHANGED <<ecData, ecLevel, ecChunks>>
    /\ EcFrame

EcNext ==
    \/ EcEncode
    \/ \E chunkMap \in [1..(Layout.dataChunks + Layout.parityChunks) -> BOOLEAN] :
          EcDecode(chunkMap)

(***************************************************************************)
(* StorageController                                                       *)
(***************************************************************************)

\* the processFileForDistribution calls of a run
MaxCalls == 2

\* the rows of storage_nodes
MaxNodes == 3

\* the status changes made to storage nodes while calls run
MaxNodeFlips == 1

DistCallIds == 1..MaxCalls
NodeIds == 1..MaxNodes

\* the file of the run, and an id no row of files has
TheFile == 1
MissingFile == 2

\* fileData.length
DistLens == {1, 6}

\* the reliability levels asked for: below, at and above the number of nodes
DistLevels == {1, 3, 5}

\* the arguments of a call: each of the levels on a buffer of 6 bytes; a buffer of
\* 1 byte and a missing file with one level each
DistArgs ==
    {a \in [fileId : {TheFile, MissingFile}, len : DistLens, reliability : DistLevels] :
        (a.fileId = MissingFile \/ a.len = 1) => (a.len = 1 /\ a.reliability = 3)}

NodeRow(st, rep, avail) ==
    [status |-> st, reputation |-> rep, storageAvailable |-> avail, uptimePercentage |-> 100]

\* the storage_nodes tables a run starts from: no node eligible, one, or all of
\* them with ties in reputation; the last node has no capacity left
InitialNodeTables ==
    {[n \in 1..MaxNodes |-> IF n % 2 = 1 THEN NodeRow("offline", 90, 12)
                                         ELSE NodeRow("online", 60, 12)],
     [n \in 1..MaxNodes |-> IF n = 1 THEN NodeRow("online", 90, 12)
                            ELSE IF n % 2 = 0 THEN NodeRow("online", 60, 12)
                            ELSE NodeRow("maintenance", 80, 12)],
     [n \in 1..MaxNodes |-> NodeRow("online", IF n % 2 = 1 THEN 80 ELSE 90,
                                    IF n = MaxNodes THEN 0 ELSE 12)]}

NoCall ==
    [pc |-> "idle", fileId |-> 0, len |-> 0, reliability |-> 0,
     dataChunks |-> 0, parityChunks |-> 0, chunkIds |-> <<>>,
     availableNodes |-> <<>>, selected |-> FALSE, ci |-> 0, ni |-> 0,
     placedCount |-> 0, result |-> "none", statusSet |-> "none", redrive |-> FALSE]

DistInit ==
    /\ files = [f \in {TheFile} |-> [status |-> "pending", userId |-> 1, uploaded |-> FALSE]]
    /\ storageNodes \in InitialNodeTables
    /\ fileChunks = {}
    /\ chunkPlacements = {}
    /\ distCalls = [c \in DistCallIds |-> NoCall]
    /\ nodeFlips = 0

\* db.update(files).set(...).where(eq(files.id, fileId)): no row, no change
SetFileStatus(fileId, fields) ==
    [f \in DOMAIN files |-> IF f = fileId THEN fields @@ files[f] ELSE files[f]]

\* status online and reputation >= 70
Eligible(n) == storageNodes[n].status = "online" /\ storageNodes[n].reputation >= 70

\* the orders the query may return the eligible nodes in: descending reputation,
\* rows of equal reputation in any order
EligibleOrders ==
    LET ids == {n \in NodeIds : Eligible(n)}
        k == Cardinality(ids)
    IN  {o \in [1..k -> ids] :
            /\ \A i, j \in 1..k : o[i] = o[j] => i = j
            /\ \A i \in 1..k, j \in 1..k :
                   i < j => storageNodes[o[i]].reputation >= storageNodes[o[j]].reputation}

\* a selection that ignores the count
SelectEveryNode(nodes, count) == nodes

\* a selection from the end of the list
SelectLastNodes(nodes, count) ==
    SubSeq(nodes, Len(nodes) - Min(count, Len(nodes)) + 1, Len(nodes))

\* nodes.slice(0, count)
selectNodesForChunk(nodes, count) == SubSeq(nodes, 1, Min(count, Len(nodes)))

\* Math.min(availableNodes.length, redundancyLevel)
PlacementsPerChunk(call) == Min(Len(call.availableNodes), call.reliability)

\* the chunk rows carry the serial id of their insert: here the call and the index
ChunkId(c, i) == <<c, i>>

\* chunk i of a call: encryptedData.length is the chunk size (AES-GCM adds no padding)
ChunkRow(c, call, i) ==
    [id |-> ChunkId(c, i), fileId |-> call.fileId, userId |-> 1, chunkIndex |-> i,
     chunkType |-> IF i < call.dataChunks THEN "data" ELSE "parity",
     size |-> ChunkSize(call.len, call.dataChunks), status |-> "pending"]

\* an earlier call for the file has ended without success
FailedBefore(fileId) ==
    \E d \in DistCallIds :
        /\ distCalls[d].pc = "done"
        /\ distCalls[d].result \in {"failure", "threw"}
        /\ distCalls[d].fileId = fileId

\* const [fileInfo] = await db.select().from(files).where(eq(files.id, fileId));
\* redrive notes that the call is made after a failed one for the file
DistStart(c, a) ==
    /\ distCalls[c].pc = "idle"
    /\ c > 1 => distCalls[c - 1].pc # "idle"
    /\ distCalls' = [distCalls EXCEPT ![c] =
          [NoCall EXCEPT !.fileId = a.fileId, !.len = a.len, !.reliability = a.reliability,
                         !.redrive = FailedBefore(a.fileId),
                         !.pc = IF a.fileId \in DOMAIN files THEN "markBackingUp" ELSE "catch"]]
    /\ UNCHANGED <<files, storageNodes, fileChunks, chunkPlacements, nodeFlips>>
    /\ DistFrame

\* status backing_up; calculateOptimalChunks; the key file is written
DistMarkBackingUp(c) ==
    /\ distCalls[c].pc = "markBackingUp"
    /\ files' = SetFileStatus(distCalls[c].fileId, [status |-> "backing_up"])
    /\ LET layout == calculateOptimalChunks(distCalls[c].len, distCalls[c].reliability)
       IN  distCalls' = [distCalls EXCEPT ![c].pc = "encode",
                                          ![c].dataChunks = layout.dataChunks,
                                          ![c].parityChunks = layout.parityChunks]
    /\ UNCHANGED <<storageNodes, fileChunks, chunkPlacements, nodeFlips>>
    /\ DistFrame

\* ErasureCoding.encode, then the first pass of the chunk loop is due; the first
\* copy from beyond the source shows how the runtime takes it
DistEncode(c) ==
    /\ distCalls[c].pc = "encode"
    /\ LET call == distCalls[c]
           beyond == \E i \in 0..(call.dataChunks - 1) :
                        i * ChunkSize(call.len, call.dataChunks) > call.len
       IN  /\ IF beyond /\ copyMode = "unset"
              THEN copyMode' \in {"strict", "lenient"}
              ELSE UNCHANGED copyMode
           /\ distCalls' = [distCalls EXCEPT ![c].pc =
                  IF \/ call.dataChunks <= 0
                     \/ call.parityChunks <= 0
                     \/ beyond /\ copyMode' = "strict"
                  THEN "catch" ELSE "chunk"]
    /\ UNCHANGED <<files, storageNodes, fileChunks, chunkPlacements, nodeFlips>>
    /\ UNCHANGED <<repVars, ecVars, tunVars, sendMode, sideVars>>

\* one pass of the chunk loop: encrypt, hash, insert the row, write the chunk file
DistInsertChunk(c) ==
    /\ distCalls[c].pc = "chunk"
    /\ LET call == distCalls[c]
           i == call.ci
           last == i + 1 = call.dataChunks + call.parityChunks
       IN  /\ fileChunks' = fileChunks \cup {ChunkRow(c, call, i)}
           /\ distCalls' = [distCalls EXCEPT ![c].chunkIds = Append(@, ChunkId(c, i)),
                                              ![c].ci = IF last THEN 0 ELSE i + 1,
                                              ![c].pc = IF last THEN "select" ELSE "chunk"]
    /\ UNCHANGED <<files, storageNodes, chunkPlacements, nodeFlips>>
    /\ DistFrame

\* determineChunkPlacement: the query for online nodes of reputation >= 70
DistSelectNodes(c) ==
    /\ distCalls[c].pc = "select"
    /\ \E order \in EligibleOrders :
          distCalls' = [distCalls EXCEPT ![c].availableNodes = order,
                                         ![c].selected = TRUE,
                                         ![c].pc = IF Min(Len(order), distCalls[c].reliability) = 0
                                                   THEN "verify" ELSE "place"]
    /\ UNCHANGED <<files, storageNodes, fileChunks, chunkPlacements, nodeFlips>>
    /\ DistFrame

\* one insert into chunk_placements: chunk ci, the ni-th selected node
DistInsertPlacement(c) ==
    /\ distCalls[c].pc = "place"
    /\ LET call == distCalls[c]
           per == PlacementsPerChunk(call)
           selectedNodes == selectNodesForChunk(call.availableNodes, per)
           chunkId == call.chunkIds[call.ci + 1]
           nodeId == selectedNodes[call.ni + 1]
           duplicate == \E p \in chunkPlacements : p.chunkId = chunkId /\ p.nodeId = nodeId
           lastNode == call.ni + 1 = Len(selectedNodes)
           lastChunk == call.ci + 1 = Len(call.chunkIds)
       IN  IF duplicate
           THEN /\ distCalls' = [distCalls EXCEPT ![c].pc = "catch"]
                /\ UNCHANGED chunkPlacements
           ELSE /\ chunkPlacements' = chunkPlacements \cup
                      {[chunkId |-> chunkId, nodeId |-> nodeId, status |-> "pending",
                        redundancyLevel |-> per]}
                /\ distCalls' = [distCalls EXCEPT
                      ![c].ni = IF lastNode THEN 0 ELSE call.ni + 1,
                      ![c].ci = IF lastNode THEN call.ci + 1 ELSE call.ci,
                      ![c].pc = IF lastNode /\ lastChunk THEN "verify" ELSE "place"]
    /\ UNCHANGED <<files, storageNodes, fileChunks, nodeFlips>>
    /\ DistFrame

\* verifyChunkPlacement: the chunks of the call with at least one placement
DistVerify(c) ==
    /\ distCalls[c].pc = "verify"
    /\ LET call == distCalls[c]
           ids == {call.chunkIds[i] : i \in DOMAIN call.chunkIds}
           placedChunks == Cardinality({p.chunkId : p \in {q \in chunkPlacements : q.chunkId \in ids}})
       IN  distCalls' = [distCalls EXCEPT ![c].placedCount = placedChunks, ![c].pc = "finish"]
    /\ UNCHANGED <<files, storageNodes, fileChunks, chunkPlacements, nodeFlips>>
    /\ DistFrame

\* the last update of files, and the value returned
DistFinish(c) ==
    /\ distCalls[c].pc = "finish"
    /\ LET call == distCalls[c]
           allPlaced == call.placedCount = Len(call.chunkIds)
       IN  IF allPlaced
           THEN /\ files' = SetFileStatus(call.fileId, [status |-> "backed_up", uploaded |-> TRUE])
                /\ distCalls' = [distCalls EXCEPT ![c].pc = "done", ![c].result = "success",
                                                   ![c].statusSet = "backed_up"]
           ELSE /\ files' = SetFileStatus(call.fileId, [status |-> "pending"])
                /\ distCalls' = [distCalls EXCEPT ![c].pc = "done", ![c].result = "failure",
                                                   ![c].statusSet = "pending"]
    /\ UNCHANGED <<storageNodes, fileChunks, chunkPlacements, nodeFlips>>
    /\ DistFrame

\* the catch block: status pending, and the error is thrown on
DistCatch(c) ==
    /\ distCalls[c].pc = "catch"
    /\ files' = SetFileStatus(distCalls[c].fileId, [status |-> "pending"])
    /\ distCalls' = [distCalls EXCEPT ![c].pc = "done", ![c].result = "threw",
                                       ![c].statusSet = "pending"]
    /\ UNCHANGED <<storageNodes, fileChunks, chunkPlacements, nodeFlips>>
    /\ DistFrame

\* the tunnel's updateNodeStatus: a node comes online or goes offline
NodeStatusChange(n, st) ==
    /\ nodeFlips < MaxNodeFlips
    /\ storageNodes[n].status # st
    /\ storageNodes' = [storageNodes EXCEPT ![n].status = st]
    /\ nodeFlips' = nodeFlips + 1
    /\ UNCHANGED <<files, fileChunks, chunkPlacements, distCalls>>
    /\ DistFrame

DistNext ==
    \/ \E c \in DistCallIds, a \in DistArgs : DistStart(c, a)
    \/ \E c \in DistCallIds : DistMarkBackingUp(c)
    \/ \E c \in DistCallIds : DistEncode(c)
    \/ \E c \in DistCallIds : DistInsertChunk(c)
    \/ \E c \in DistCallIds : DistSelectNodes(c)
    \/ \E c \in DistCallIds : DistInsertPlacement(c)
    \/ \E c \in DistCallIds : DistVerify(c)
    \/ \E c \in DistCallIds : DistFinish(c)
    \/ \E c \in DistCallIds : DistCatch(c)
    \/ \E n \in NodeIds, st \in {"online", "offline"} : NodeStatusChange(n, st)

FilesIdle ==
    /\ files = <<>>
    /\ fileChunks = {}
    /\ chunkPlacements = {}
    /\ distCalls = <<>>
    /\ nodeFlips = 0

DistIdle == FilesIdle /\ storageNodes = <<>>

(***************************************************************************)
(* StorageController.retrieveFile.  It reads files and file_chunks and     *)
(* writes nothing.  No code of the repository sets the status of a         *)
(* file_chunks row after its insert, so the tables a call finds are drawn  *)
(* from the values the schema names for the column.                        *)
(***************************************************************************)

\* the retrieveFile calls of a run
MaxRetrieves == 2

\* the data and parity rows file_chunks has for the file
RetDataChunks == 2
RetParityChunks == 1

RetCallIds == 1..MaxRetrieves

\* the owner of the file, and another user
UserIds == {1, 2}

\* file_chunks.status: "pending", "stored", "verified"
ChunkStatuses == {"pending", "stored", "verified"}

RetArgs == [fileId : {TheFile, MissingFile}, userId : UserIds]

\* the rows of the file, one for every chunkIndex, with the statuses given
RetRows(statuses) ==
    {[id |-> i + 1, fileId |-> TheFile, userId |-> 1, chunkIndex |-> i,
      chunkType |-> IF i < RetDataChunks THEN "data" ELSE "parity",
      size |-> 2, status |-> statuses[i]] : i \in DOMAIN statuses}

\* file_chunks: no row for the file, or its rows in any status
RetTables ==
    {{}} \cup {RetRows(st) : st \in [0..(RetDataChunks + RetParityChunks - 1) -> ChunkStatuses]}

\* chunk_placements: none, or every row of file_chunks placed on the first node
RetPlacements(rows) ==
    {{}, {[chunkId |-> r.id, nodeId |-> 1, status |-> "stored", redundancyLevel |-> 1] :
             r \in rows}}

NoRetrieve == [pc |-> "idle", fileId |-> 0, userId |-> 0, result |-> "none"]

RetInit ==
    /\ files = [f \in {TheFile} |-> [status |-> "backed_up", userId |-> 1, uploaded |-> TRUE]]
    /\ storageNodes = [n \in NodeIds |-> NodeRow("online", 90, 12)]
    /\ fileChunks \in RetTables
    /\ chunkPlacements \in RetPlacements(fileChunks)
    /\ distCalls = <<>>
    /\ nodeFlips = 0
    /\ retCalls = [c \in RetCallIds |-> NoRetrieve]

\* a query of files by id alone
FindFileById(fileId, userId) == fileId \in DOMAIN files

\* db.select().from(files).where(and(eq(files.id, fileId), eq(files.userId, userId)))
FindFile(fileId, userId) == fileId \in DOMAIN files /\ files[fileId].userId = userId

\* retrieveFile up to the query of files: `File not found or access denied` is
\* thrown if it has no row
RetrieveStart(c, a) ==
    /\ retCalls[c].pc = "idle"
    /\ c > 1 => retCalls[c - 1].pc # "idle"
    /\ retCalls' = [retCalls EXCEPT ![c] =
          IF FindFile(a.fileId, a.userId)
          THEN [pc |-> "chunks", fileId |-> a.fileId, userId |-> a.userId, result |-> "none"]
          ELSE [pc |-> "done", fileId |-> a.fileId, userId |-> a.userId, result |-> "notFound"]]
    /\ UNCHANGED distVars
    /\ RetFrame

\* the outcome for the rows the query of file_chunks returns
RetrieveResult(fileChunksList) ==
    LET dataChunks == Cardinality({r \in fileChunksList : r.chunkType = "data"})
        dataChunksAvailable ==
            Cardinality({r \in fileChunksList : r.chunkType = "data" /\ r.status = "stored"})
    IN  IF fileChunksList = {} THEN "noChunks"
        ELSE IF dataChunksAvailable < dataChunks THEN "insufficient"
        ELSE "success"

\* the query of file_chunks and what follows it
RetrieveChunks(c) ==
    /\ retCalls[c].pc = "chunks"
    /\ retCalls' = [retCalls EXCEPT
          ![c].pc = "done",
          ![c].result = RetrieveResult({r \in fileChunks : r.fileId = retCalls[c].fileId})]
    /\ UNCHANGED distVars
    /\ RetFrame

RetNext ==
    \/ \E c \in RetCallIds, a \in RetArgs : RetrieveStart(c, a)
    \/ \E c \in RetCallIds : RetrieveChunks(c)

(***************************************************************************)
(* StorageController, one file from upload to download: the file is        *)
(* distributed, and its owner calls retrieveFile, again after every call   *)
(* that threw.                                                             *)
(***************************************************************************)

\* the processFileForDistribution calls of such a run
MaxStoreCalls == 1

StoreInit ==
    /\ DistInit
    /\ retCalls = [c \in RetCallIds |-> NoRetrieve]

\* the arguments of the owner of a file
OwnerArgs(fileId) == {a \in RetArgs : a.fileId = fileId /\ a.userId = files[fileId].userId}

\* the caller of a retrieveFile call that threw calls again
RetrieveAgain(c) ==
    /\ retCalls[c].pc = "done"
    /\ retCalls[c].result # "success"
    /\ retCalls' = [retCalls EXCEPT ![c] = NoRetrieve]
    /\ UNCHANGED distVars
    /\ RetFrame

StoreNext ==
    \/ \E c \in 1..MaxStoreCalls, a \in DistArgs : DistStart(c, a)
    \/ \E c \in 1..MaxStoreCalls : DistMarkBackingUp(c)
    \/ \E c \in 1..MaxStoreCalls : DistEncode(c)
    \/ \E c \in 1..MaxStoreCalls : DistInsertChunk(c)
    \/ \E c \in 1..MaxStoreCalls : DistSelectNodes(c)
    \/ \E c \in 1..MaxStoreCalls : DistInsertPlacement(c)
    \/ \E c \in 1..MaxStoreCalls : DistVerify(c)
    \/ \E c \in 1..MaxStoreCalls : DistFinish(c)
    \/ \E c \in 1..MaxStoreCalls : DistCatch(c)
    \/ \E n \in NodeIds, st \in {"online", "offline"} : NodeStatusChange(n, st)
    \/ \E a \in OwnerArgs(TheFile) : RetrieveStart(1, a)
    \/ RetrieveChunks(1)
    \/ RetrieveAgain(1)

(***************************************************************************)
(* P2PTunnel.  Two classes of that name are in the repository: the one of  *)
(* src/server/p2p/tunnel.ts and the one of src/unnamed/part_009; impl says *)
(* which one a run is of.  A handler runs from the event that starts it to *)
(* its first await in one step; what follows an await is a continuation in *)
(* pending, which runs in a later step, the awaited database operation     *)
(* taking effect with it.  The ws library emits 'message' for the frames   *)
(* that reach it until the socket is closed, close() called or not.        *)
(***************************************************************************)

\* the connections accepted in a run
MaxConns == 2

\* the frames a peer sends on one connection, and the frames of all peers in a
\* run without timers and in a run with timers
MaxFramesPerConn == 3
MaxFrames == 4
MaxTimedFrames == 3

\* the times the clock is advanced, and the health sweeps
MaxAdvances == 1
MaxSweeps == 1

ConnIds == 1..MaxConns

\* randomBytes(8) of the temporary id and randomBytes(16) of the permanent id:
\* distinct for every connection
TempId(c) == <<"temp1", "temp2", "temp3", "temp4">>[c]
RandId(c) == <<"rand1", "rand2", "rand3", "rand4">>[c]

\* storage_nodes.node_id of a row
NodeName(n) == <<"n1", "n2", "n3", "n4">>[n]

\* the threshold of performHealthChecks and the authentication window, in ms
TimeoutThreshold == 60000
TimeoutThresholdOld == 300000
AuthWindow == 10000

\* the periods of the setInterval timers: the health sweep, the heartbeat
SweepPeriod == 30000
HeartbeatPeriod == 15000

Threshold == IF impl = "tunnel" THEN TimeoutThreshold ELSE TimeoutThresholdOld

\* the steps of the clock: the authentication window, the threshold, and one ms more
TimeSteps == {AuthWindow, Threshold, Threshold + 1}

\* the key a new connection is stored under before it has authenticated
ConnKey(c) == IF impl = "tunnel" THEN TempId(c) ELSE RandId(c)

\* Map.set, Map.delete and Map.get of connectedPeers (0: undefined)
MapSet(map, k, v) == [x \in DOMAIN map \cup {k} |-> IF x = k THEN v ELSE map[x]]
MapDel(map, k) == [x \in DOMAIN map \ {k} |-> map[x]]
MapGet(map, k) == IF k \in DOMAIN map THEN map[k] ELSE 0

\* peerMetadata.get: the position of the entry of a peerId (0: undefined)
MetaGet(meta, peerId) ==
    IF \E i \in DOMAIN meta : meta[i].peerId = peerId
    THEN CHOOSE i \in DOMAIN meta : meta[i].peerId = peerId
    ELSE 0

\* peerMetadata.set: an entry of that key keeps its place, a new one goes last
MetaSet(meta, entry) ==
    IF MetaGet(meta, entry.peerId) = 0
    THEN Append(meta, entry)
    ELSE [meta EXCEPT ![MetaGet(meta, entry.peerId)] = entry]

MetaDel(meta, peerId) ==
    LET keep(e) == e.peerId # peerId IN SelectSeq(meta, keep)

\* every entry is stamped
TouchAll(meta, peerId) == [i \in DOMAIN meta |-> [meta[i] EXCEPT !.lastActive = now]]

\* metadata.lastActive = new Date()
Touch(meta, peerId) ==
    [i \in DOMAIN meta |-> IF meta[i].peerId = peerId
                           THEN [meta[i] EXCEPT !.lastActive = now] ELSE meta[i]]

\* for (const [peerId, metadata] of this.peerMetadata.entries()): the first entry
\* of that nodeId (0: none)
FindTarget(meta, nodeId) ==
    IF \E i \in DOMAIN meta : meta[i].nodeId = nodeId
    THEN CHOOSE i \in DOMAIN meta :
             /\ meta[i].nodeId = nodeId
             /\ \A j \in DOMAIN meta : meta[j].nodeId = nodeId => i <= j
    ELSE 0

\* ws.close()
Close(s, c) == [s EXCEPT ![c] = IF @ = "open" THEN "closing" ELSE @]

\* a frame the tunnel sends; conn and idx name the frame of a peer that caused it
Out(type, c, idx) ==
    [type |-> type, conn |-> c, idx |-> idx, peerId |-> "", error |-> FALSE, peers |-> <<>>]

\* ws.send(frame) on the socket of connection to: delivered if the socket is open
Deliver(ob, to, frame) ==
    IF sock[to] = "open" THEN [ob EXCEPT ![to] = @ \cup {frame}] ELSE ob

\* n effects of frame idx of connection c
AddEffects(eff, c, idx, n) ==
    [eff EXCEPT ![c] = @ \o [i \in 1..n |-> idx]]

\* the first send on a socket that is not open shows how the library takes it
SendTo(to) ==
    IF sock[to] # "open" /\ sendMode = "unset"
    THEN sendMode' \in {"throws", "drops"}
    ELSE UNCHANGED sendMode

\* a frame of a peer
Frame(type) ==
    [type |-> type, userId |-> 0, nodeId |-> "", targetNodeId |-> "", peerId |-> "",
     targetPeerId |-> "", storageAvailable |-> 0, uptimePercentage |-> 0]

\* auth frames: with and without a nodeId, with the placeholder nodeId of the
\* browser client, and one without userId
AuthFrames ==
    {[Frame("auth") EXCEPT !.userId = 1, !.nodeId = n] : n \in {"", "n1", "browser-client"}}
        \cup {[Frame("auth") EXCEPT !.nodeId = "n1"]}

\* chunk requests of connection c for a fragment on node n1: peerId absent, the
\* id the connection was given at auth, or the id of another peer
ChunkRequests(c) ==
    {[Frame("chunk_request") EXCEPT !.targetNodeId = "n1", !.peerId = p] :
        p \in {"", peerIdOf[c], "n1"}}

\* chunk responses addressed to a peerId: that of a node, the placeholder of the
\* browser client, and the temporary id of the last connection
ChunkResponses ==
    {[Frame("chunk_response") EXCEPT !.targetPeerId = p, !.targetNodeId = p] :
        p \in {"n1", "browser-client", TempId(MaxConns)}}

\* metrics a peer reports about itself: the values are of its choosing
MetricsFrames ==
    {[Frame(t) EXCEPT !.storageAvailable = -5, !.uptimePercentage = 40] :
        t \in {"node_metrics", "status_update"}}

\* the frames of a run with timers
TimedFrames ==
    AuthFrames \cup {Frame("malformed"), Frame("heartbeat"), Frame("heartbeat_ack")}

\* "malformed" is a frame JSON.parse throws on
Frames(c) ==
    AuthFrames \cup ChunkRequests(c) \cup ChunkResponses \cup MetricsFrames
        \cup {Frame("malformed"), Frame("heartbeat"), Frame("heartbeat_ack"),
              Frame("peer_discovery")}

\* a continuation suspended on a database operation
Pending(kind, c, idx) ==
    [kind |-> kind, conn |-> c, idx |-> idx, frame |-> Frame("none"), userId |-> 0,
     nodeId |-> "", target |-> "", targetConn |-> 0]

\* the storage_nodes the tunnel starts with: registered, none online
TunNodeTable ==
    [n \in NodeIds |-> NodeRow("offline",
                               IF n % 3 = 1 THEN 90 ELSE IF n % 3 = 2 THEN 60 ELSE 80,
                               IF n % 3 = 0 THEN 0 ELSE 12)]

TunInit ==
    /\ impl \in {"tunnel", "part_009"}
    /\ sock = [c \in ConnIds |-> "none"]
    /\ listener = [c \in ConnIds |-> "none"]
    /\ hooked = [c \in ConnIds |-> FALSE]
    /\ peerIdOf = [c \in ConnIds |-> ""]
    /\ connectedPeers = <<>>
    /\ peerMetadata = <<>>
    /\ pending = {}
    /\ outbox = [c \in ConnIds |-> {}]
    /\ effects = [c \in ConnIds |-> <<>>]
    /\ peerConnections = {}
    /\ frameCount = [c \in ConnIds |-> 0]
    /\ lastFrameAt = [c \in ConnIds |-> 0]
    /\ now = 0
    /\ connectedAt = [c \in ConnIds |-> 0]
    /\ timerFired = [c \in ConnIds |-> FALSE]
    /\ advances = 0
    /\ sweeps = 0
    /\ storageNodes = TunNodeTable

\* a run too short for a timer to fire, and a run in which they do
TunInitUntimed == TunInit /\ timed = FALSE
TunInitTimed == TunInit /\ timed = TRUE

\* db.update(storageNodes).set({status}).where(eq(storageNodes.nodeId, nodeId))
updateNodeStatus(nodeId, status) ==
    [n \in NodeIds |-> IF NodeName(n) = nodeId
                       THEN [storageNodes[n] EXCEPT !.status = status] ELSE storageNodes[n]]

\* updateNodeMetrics of tunnel.ts: the value of the frame is written as it is
updateNodeMetrics(nodeId, frame) ==
    [n \in NodeIds |-> IF NodeName(n) = nodeId
                       THEN [storageNodes[n] EXCEPT !.storageAvailable = frame.storageAvailable]
                       ELSE storageNodes[n]]

\* updateNodeMetrics of part_009: storageAvailable || 0, uptimePercentage || 100
updateNodeMetricsOld(nodeId, frame) ==
    [n \in NodeIds |-> IF NodeName(n) = nodeId
                       THEN [storageNodes[n] EXCEPT
                                !.storageAvailable = frame.storageAvailable,
                                !.uptimePercentage = IF frame.uptimePercentage # 0
                                                     THEN frame.uptimePercentage ELSE 100]
                       ELSE storageNodes[n]]

\* the rows handlePeerDiscovery selects
Discoverable(n) ==
    IF impl = "tunnel"
    THEN /\ storageNodes[n].status = "online"
         /\ storageNodes[n].storageAvailable > 0
         /\ storageNodes[n].reputation >= 70
    ELSE storageNodes[n].status = "online"

\* the orders the query may return them in: tunnel.ts by descending reputation,
\* part_009 in any order (limit 10 is beyond the rows of a run)
DiscoveryOrders ==
    LET ids == {n \in NodeIds : Discoverable(n)}
        k == Cardinality(ids)
    IN  {o \in [1..k -> ids] :
            /\ \A i, j \in 1..k : o[i] = o[j] => i = j
            /\ impl = "tunnel" =>
                  \A i \in 1..k, j \in 1..k :
                      i < j => storageNodes[o[i]].reputation >= storageNodes[o[j]].reputation}

\* a frame can reach the handlers of a connection
RECURSIVE Total(_, _)
Total(f, n) == IF n = 0 THEN 0 ELSE f[n] + Total(f, n - 1)

CanReceive(c) ==
    /\ sock[c] \in {"open", "closing"}
    /\ frameCount[c] < MaxFramesPerConn
    /\ Total(frameCount, MaxConns) < (IF timed THEN MaxTimedFrames ELSE MaxFrames)

Count(c) == [frameCount EXCEPT ![c] = @ + 1]

clockVars == <<now, connectedAt, timerFired, advances, sweeps, timed>>

\* wss.on('connection'): the connection is stored under its first key
TunConnect(c) ==
    /\ sock[c] = "none"
    /\ c > 1 => sock[c - 1] # "none"
    /\ sock' = [sock EXCEPT ![c] = "open"]
    /\ listener' = [listener EXCEPT ![c] = "auth"]
    /\ connectedPeers' = MapSet(connectedPeers, ConnKey(c), c)
    /\ connectedAt' = [connectedAt EXCEPT ![c] = now]
    /\ UNCHANGED <<impl, hooked, peerIdOf, peerMetadata, pending, outbox, effects,
                   peerConnections, frameCount, lastFrameAt, now, timerFired, advances,
                   sweeps, timed, storageNodes, sendMode>>
    /\ TunFrame

\* a frame while no 'message' listener is attached: nothing handles it
TunUnheard(c, f) ==
    /\ listener[c] = "none"
    /\ CanReceive(c)
    /\ frameCount' = Count(c)
    /\ UNCHANGED <<impl, sock, listener, hooked, peerIdOf, connectedPeers, peerMetadata,
                   pending, outbox, effects, peerConnections, lastFrameAt, clockVars,
                   storageNodes, sendMode>>
    /\ TunFrame

\* tunnel.ts lines 81-98: the maps are set, auth_success is sent and
\* setupMessageHandling attaches its listeners; a send that throws ends it before
\* setupMessageHandling
AuthComplete(c, idx, entry, peers) ==
    /\ SendTo(c)
    /\ connectedPeers' = MapSet(peers, entry.peerId, c)
    /\ peerMetadata' = MetaSet(peerMetadata, [entry EXCEPT !.lastActive = now])
    /\ peerIdOf' = [peerIdOf EXCEPT ![c] = entry.peerId]
    /\ lastFrameAt' = [lastFrameAt EXCEPT ![c] = now]
    /\ outbox' = Deliver(outbox, c, [Out("auth_success", c, idx) EXCEPT !.peerId = entry.peerId])
    /\ effects' = IF sock[c] = "open" THEN AddEffects(effects, c, idx, 1) ELSE effects
    /\ LET thrown == sock[c] # "open" /\ sendMode' = "throws"
       IN  /\ listener' = [listener EXCEPT ![c] = IF thrown THEN "none" ELSE "msg"]
           /\ hooked' = [hooked EXCEPT ![c] = ~thrown]

\* authHandler of tunnel.ts
authHandler(c, f) ==
    /\ impl = "tunnel"
    /\ listener[c] = "auth"
    /\ CanReceive(c)
    /\ frameCount' = Count(c)
    /\ LET idx == frameCount[c] + 1
           peerId == IF f.nodeId # "" THEN f.nodeId ELSE RandId(c)
           entry == [peerId |-> peerId, userId |-> f.userId,
                     nodeId |-> IF f.nodeId # "" THEN f.nodeId ELSE "browser-client",
                     lastActive |-> now]
           refused == Deliver(outbox, c, Out("auth_error", c, idx))
       IN  IF f.type = "auth" /\ f.userId # 0 /\ f.nodeId = ""
           THEN /\ AuthComplete(c, idx, entry, MapDel(connectedPeers, TempId(c)))
                /\ UNCHANGED <<sock, pending>>
           ELSE IF f.type = "auth" /\ f.userId # 0
           THEN /\ listener' = [listener EXCEPT ![c] = "none"]
                /\ connectedPeers' = MapDel(connectedPeers, TempId(c))
                /\ pending' = pending \cup
                      {[Pending("auth", c, idx) EXCEPT !.userId = f.userId, !.nodeId = f.nodeId]}
                /\ UNCHANGED <<sock, hooked, peerIdOf, peerMetadata, outbox, effects,
                               lastFrameAt, sendMode>>
           ELSE /\ listener' = [listener EXCEPT ![c] = IF f.type = "auth" THEN "none" ELSE "auth"]
                /\ outbox' = refused
                /\ effects' = IF sock[c] = "open" THEN AddEffects(effects, c, idx, 1) ELSE effects
                /\ sock' = Close(sock, c)
                /\ UNCHANGED <<hooked, peerIdOf, connectedPeers, peerMetadata, pending,
                               lastFrameAt, sendMode>>
    /\ UNCHANGED <<impl, peerConnections, clockVars, storageNodes>>
    /\ TunFrame

\* authHandler of tunnel.ts after await this.updateNodeStatus(nodeId, 'online', ip)
authHandlerResume(p) ==
    /\ impl = "tunnel"
    /\ p \in pending /\ p.kind = "auth"
    /\ storageNodes' = updateNodeStatus(p.nodeId, "online")
    /\ AuthComplete(p.conn, p.idx,
                    [peerId |-> p.nodeId, userId |-> p.userId, nodeId |-> p.nodeId,
                     lastActive |-> now],
                    connectedPeers)
    /\ pending' = pending \ {p}
    /\ UNCHANGED <<impl, sock, peerConnections, frameCount, clockVars>>
    /\ TunFrame

\* the ws.once('message') listener of part_009
authHandlerOld(c, f) ==
    /\ impl = "part_009"
    /\ listener[c] = "auth"
    /\ CanReceive(c)
    /\ frameCount' = Count(c)
    /\ listener' = [listener EXCEPT ![c] = "none"]
    /\ LET idx == frameCount[c] + 1
       IN  IF f.type = "auth" /\ f.userId # 0 /\ f.nodeId # ""
           THEN /\ peerMetadata' = MetaSet(peerMetadata,
                      [peerId |-> RandId(c), userId |-> f.userId, nodeId |-> f.nodeId,
                       lastActive |-> now])
                /\ lastFrameAt' = [lastFrameAt EXCEPT ![c] = now]
                /\ pending' = pending \cup
                      {[Pending("auth", c, idx) EXCEPT !.userId = f.userId, !.nodeId = f.nodeId]}
                /\ UNCHANGED <<sock, connectedPeers, outbox, effects>>
           ELSE /\ outbox' = IF f.type = "malformed" THEN outbox
                             ELSE Deliver(outbox, c, Out("auth_error", c, idx))
                /\ effects' = IF f.type # "malformed" /\ sock[c] = "open"
                              THEN AddEffects(effects, c, idx, 1) ELSE effects
                /\ sock' = Close(sock, c)
                /\ connectedPeers' = MapDel(connectedPeers, RandId(c))
                /\ UNCHANGED <<peerMetadata, lastFrameAt, pending>>
    /\ UNCHANGED <<impl, hooked, peerIdOf, peerConnections, clockVars, storageNodes, sendMode>>
    /\ TunFrame

\* part_009 after await this.updateNodeStatus(auth.nodeId, 'online', ip): a send
\* that throws goes to the catch, which closes and deletes the connection
authHandlerOldResume(p) ==
    /\ impl = "part_009"
    /\ p \in pending /\ p.kind = "auth"
    /\ storageNodes' = updateNodeStatus(p.nodeId, "online")
    /\ SendTo(p.conn)
    /\ LET c == p.conn
           thrown == sock[c] # "open" /\ sendMode' = "throws"
       IN  /\ outbox' = Deliver(outbox, c, [Out("auth_success", c, p.idx) EXCEPT !.peerId = RandId(c)])
           /\ effects' = IF sock[c] = "open" THEN AddEffects(effects, c, p.idx, 1) ELSE effects
           /\ listener' = [listener EXCEPT ![c] = IF thrown THEN "none" ELSE "msg"]
           /\ peerIdOf' = [peerIdOf EXCEPT ![c] = IF thrown THEN @ ELSE RandId(c)]
           /\ connectedPeers' = IF thrown THEN MapDel(connectedPeers, RandId(c)) ELSE connectedPeers
    /\ pending' = pending \ {p}
    /\ UNCHANGED <<impl, sock, hooked, peerMetadata, peerConnections, frameCount, lastFrameAt,
                   clockVars>>
    /\ TunFrame

\* the 'message' listener of setupMessageHandling in tunnel.ts, forwardToTargetPeer
\* up to its await included
messageHandler(c, f) ==
    /\ impl = "tunnel"
    /\ listener[c] = "msg"
    /\ CanReceive(c)
    /\ frameCount' = Count(c)
    /\ LET idx == frameCount[c] + 1
           known == MetaGet(peerMetadata, peerIdOf[c]) # 0
           meta == Touch(peerMetadata, peerIdOf[c])
           t == FindTarget(meta, f.targetNodeId)
           targetPeerId == IF t = 0 THEN "" ELSE meta[t].peerId
           connected == t # 0 /\ targetPeerId \in DOMAIN connectedPeers
           senderPeer == MapGet(connectedPeers, f.peerId)
           addressee == MapGet(connectedPeers, f.targetPeerId)
           self == meta[MetaGet(meta, peerIdOf[c])]
       IN  /\ peerMetadata' = IF known THEN meta ELSE peerMetadata
           /\ lastFrameAt' = IF known THEN [lastFrameAt EXCEPT ![c] = now] ELSE lastFrameAt
           /\ IF known /\ f.type = "chunk_request" /\ ~connected
              THEN /\ outbox' = IF senderPeer # 0
                                THEN Deliver(outbox, senderPeer,
                                             [Out("chunk_response", c, idx) EXCEPT !.error = TRUE])
                                ELSE outbox
                   /\ effects' = IF senderPeer # 0 /\ sock[senderPeer] = "open"
                                 THEN AddEffects(effects, c, idx, 1) ELSE effects
                   /\ UNCHANGED pending
              ELSE IF known /\ f.type = "chunk_request"
              THEN /\ pending' = pending \cup
                         {[Pending("forward", c, idx) EXCEPT !.frame = f, !.userId = self.userId,
                                                             !.target = targetPeerId]}
                   /\ UNCHANGED <<outbox, effects>>
              ELSE IF known /\ f.type = "chunk_response"
              THEN /\ outbox' = IF f.targetPeerId # "" /\ addressee # 0
                                THEN Deliver(outbox, addressee,
                                             [Out("chunk_response", c, idx) EXCEPT
                                                  !.peerId = f.targetPeerId])
                                ELSE outbox
                   /\ effects' = IF f.targetPeerId # "" /\ addressee # 0 /\ sock[addressee] = "open"
                                 THEN AddEffects(effects, c, idx, 1) ELSE effects
                   /\ UNCHANGED pending
              ELSE IF known /\ f.type \in {"peer_discovery", "node_metrics"}
              THEN /\ pending' = pending \cup
                         {[Pending(IF f.type = "peer_discovery" THEN "discovery" ELSE "metrics",
                                   c, idx) EXCEPT !.frame = f, !.nodeId = self.nodeId]}
                   /\ UNCHANGED <<outbox, effects>>
              ELSE UNCHANGED <<pending, outbox, effects>>
    /\ UNCHANGED <<impl, sock, listener, hooked, peerIdOf, connectedPeers, peerConnections,
                   clockVars, storageNodes, sendMode>>
    /\ TunFrame

\* forwardToTargetPeer of tunnel.ts after await db.insert(peerConnections): the
\* insert made its row or threw, and the request goes to the target looked up now
forwardToTargetPeer(p, inserted) ==
    /\ impl = "tunnel"
    /\ p \in pending /\ p.kind = "forward"
    /\ LET targetPeer == MapGet(connectedPeers, p.target)
           sent == targetPeer # 0 /\ sock[targetPeer] = "open"
       IN  /\ peerConnections' = IF inserted
                                 THEN peerConnections \cup
                                      {[conn |-> p.conn, idx |-> p.idx, sourceUserId |-> p.userId,
                                        targetNodeId |-> p.frame.targetNodeId,
                                        connectionType |-> "chunk_request"]}
                                 ELSE peerConnections
           /\ outbox' = IF sent
                        THEN Deliver(outbox, targetPeer,
                                     [Out("chunk_request", p.conn, p.idx) EXCEPT
                                          !.peerId = p.frame.peerId])
                        ELSE outbox
           /\ effects' = AddEffects(effects, p.conn, p.idx,
                                    (IF inserted THEN 1 ELSE 0) + (IF sent THEN 1 ELSE 0))
    /\ pending' = pending \ {p}
    /\ UNCHANGED <<impl, sock, listener, hooked, peerIdOf, connectedPeers, peerMetadata,
                   frameCount, lastFrameAt, clockVars, storageNodes, sendMode>>
    /\ TunFrame

\* the 'message' listener of setupMessageHandling in part_009, forwardToTargetPeer
\* up to its await included
messageHandlerOld(c, f) ==
    /\ impl = "part_009"
    /\ listener[c] = "msg"
    /\ CanReceive(c)
    /\ frameCount' = Count(c)
    /\ LET idx == frameCount[c] + 1
           known == MetaGet(peerMetadata, RandId(c)) # 0
           meta == Touch(peerMetadata, RandId(c))
           t == FindTarget(meta, f.targetNodeId)
           targetWs == IF t = 0 THEN 0 ELSE MapGet(connectedPeers, meta[t].peerId)
           self == meta[MetaGet(meta, RandId(c))]
       IN  /\ peerMetadata' = IF known THEN meta ELSE peerMetadata
           /\ lastFrameAt' = IF known THEN [lastFrameAt EXCEPT ![c] = now] ELSE lastFrameAt
           /\ IF known /\ f.type \in {"chunk_request", "chunk_response"}
              THEN /\ pending' = IF targetWs # 0 /\ sock[targetWs] = "open"
                                 THEN pending \cup
                                      {[Pending("forward", c, idx) EXCEPT
                                            !.frame = f, !.nodeId = self.nodeId,
                                            !.targetConn = targetWs]}
                                 ELSE pending
                   /\ UNCHANGED <<outbox, effects>>
              ELSE IF known /\ f.type = "heartbeat"
              THEN /\ outbox' = Deliver(outbox, c, Out("heartbeat_ack", c, idx))
                   /\ effects' = IF sock[c] = "open" THEN AddEffects(effects, c, idx, 1)
                                 ELSE effects
                   /\ UNCHANGED pending
              ELSE IF known /\ f.type \in {"peer_discovery", "status_update"}
              THEN /\ pending' = pending \cup
                         {[Pending(IF f.type = "peer_discovery" THEN "discovery" ELSE "metrics",
                                   c, idx) EXCEPT !.frame = f, !.nodeId = self.nodeId]}
                   /\ UNCHANGED <<outbox, effects>>
              ELSE UNCHANGED <<pending, outbox, effects>>
    /\ UNCHANGED <<impl, sock, listener, hooked, peerIdOf, connectedPeers, peerConnections,
                   clockVars, storageNodes, sendMode>>
    /\ TunFrame

\* forwardToTargetPeer of part_009 after await db.insert(peerConnections): an
\* insert that throws goes to the catch, past the send
forwardToTargetPeerOld(p, inserted) ==
    /\ impl = "part_009"
    /\ p \in pending /\ p.kind = "forward"
    /\ LET sent == inserted /\ sock[p.targetConn] = "open"
       IN  /\ peerConnections' = IF inserted
                                 THEN peerConnections \cup
                                      {[conn |-> p.conn, idx |-> p.idx, sourceUserId |-> 0,
                                        targetNodeId |-> p.frame.targetNodeId,
                                        connectionType |-> IF p.frame.type = "chunk_request"
                                                           THEN "download" ELSE "upload"]}
                                 ELSE peerConnections
           /\ outbox' = IF sent
                        THEN Deliver(outbox, p.targetConn,
                                     [Out(p.frame.type, p.conn, p.idx) EXCEPT !.peerId = p.nodeId])
                        ELSE outbox
           /\ effects' = AddEffects(effects, p.conn, p.idx,
                                    (IF inserted THEN 1 ELSE 0) + (IF sent THEN 1 ELSE 0))
    /\ pending' = pending \ {p}
    /\ UNCHANGED <<impl, sock, listener, hooked, peerIdOf, connectedPeers, peerMetadata,
                   frameCount, lastFrameAt, clockVars, storageNodes, sendMode>>
    /\ TunFrame

\* handlePeerDiscovery after its query: the rows found now go to the asking peer
handlePeerDiscovery(p) ==
    /\ p \in pending /\ p.kind = "discovery"
    /\ \E order \in DiscoveryOrders :
          outbox' = Deliver(outbox, p.conn,
                            [Out("peer_discovery_result", p.conn, p.idx) EXCEPT !.peers = order])
    /\ effects' = IF sock[p.conn] = "open" THEN AddEffects(effects, p.conn, p.idx, 1)
                  ELSE effects
    /\ pending' = pending \ {p}
    /\ UNCHANGED <<impl, sock, listener, hooked, peerIdOf, connectedPeers, peerMetadata,
                   peerConnections, frameCount, lastFrameAt, clockVars, storageNodes, sendMode>>
    /\ TunFrame

\* the update of updateNodeMetrics
nodeMetricsUpdate(p) ==
    /\ p \in pending /\ p.kind = "metrics"
    /\ storageNodes' = IF impl = "tunnel" THEN updateNodeMetrics(p.nodeId, p.frame)
                       ELSE updateNodeMetricsOld(p.nodeId, p.frame)
    /\ effects' = IF \E n \in NodeIds : NodeName(n) = p.nodeId
                  THEN AddEffects(effects, p.conn, p.idx, 1) ELSE effects
    /\ pending' = pending \ {p}
    /\ UNCHANGED <<impl, sock, listener, hooked, peerIdOf, connectedPeers, peerMetadata,
                   outbox, peerConnections, frameCount, lastFrameAt, clockVars, sendMode>>
    /\ TunFrame

\* the 'close' event of a socket in tunnel.ts: the listener of the connection
\* handler, then the one of setupMessageHandling if it was attached
closeHandler(c) ==
    /\ impl = "tunnel"
    /\ sock[c] \in {"open", "closing"}
    /\ sock' = [sock EXCEPT ![c] = "closed"]
    /\ LET m == MetaGet(peerMetadata, peerIdOf[c])
           peers == MapDel(connectedPeers, TempId(c))
       IN  IF hooked[c]
           THEN /\ connectedPeers' = MapDel(peers, peerIdOf[c])
                /\ peerMetadata' = MetaDel(peerMetadata, peerIdOf[c])
                /\ pending' = IF m # 0 /\ peerMetadata[m].nodeId # "browser-client"
                              THEN pending \cup
                                   {[Pending("offline", c, 0) EXCEPT !.nodeId = peerMetadata[m].nodeId]}
                              ELSE pending
           ELSE /\ connectedPeers' = peers
                /\ UNCHANGED <<peerMetadata, pending>>
    /\ UNCHANGED <<impl, listener, hooked, peerIdOf, outbox, effects, peerConnections,
                   frameCount, lastFrameAt, clockVars, storageNodes, sendMode>>
    /\ TunFrame

\* the 'close' event of a socket in part_009: with metadata the maps are cleared
\* after await this.updateNodeStatus(metadata.nodeId, 'offline')
closeHandlerOld(c) ==
    /\ impl = "part_009"
    /\ sock[c] \in {"open", "closing"}
    /\ sock' = [sock EXCEPT ![c] = "closed"]
    /\ LET m == MetaGet(peerMetadata, RandId(c))
       IN  IF m # 0
           THEN /\ pending' = pending \cup
                      {[Pending("closed", c, 0) EXCEPT !.nodeId = peerMetadata[m].nodeId]}
                /\ UNCHANGED connectedPeers
           ELSE /\ connectedPeers' = MapDel(connectedPeers, RandId(c))
                /\ UNCHANGED pending
    /\ UNCHANGED <<impl, listener, hooked, peerIdOf, peerMetadata, outbox, effects,
                   peerConnections, frameCount, lastFrameAt, clockVars, storageNodes, sendMode>>
    /\ TunFrame

\* the close listener of part_009 after its await
closeHandlerOldResume(p) ==
    /\ p \in pending /\ p.kind = "closed"
    /\ storageNodes' = updateNodeStatus(p.nodeId, "offline")
    /\ peerMetadata' = MetaDel(peerMetadata, RandId(p.conn))
    /\ connectedPeers' = MapDel(connectedPeers, RandId(p.conn))
    /\ pending' = pending \ {p}
    /\ UNCHANGED <<impl, sock, listener, hooked, peerIdOf, outbox, effects, peerConnections,
                   frameCount, lastFrameAt, clockVars, sendMode>>
    /\ TunFrame

\* the update of an updateNodeStatus(nodeId, 'offline') nothing waits for
nodeOfflineUpdate(p) ==
    /\ p \in pending /\ p.kind = "offline"
    /\ storageNodes' = updateNodeStatus(p.nodeId, "offline")
    /\ pending' = pending \ {p}
    /\ UNCHANGED <<impl, sock, listener, hooked, peerIdOf, connectedPeers, peerMetadata,
                   outbox, effects, peerConnections, frameCount, lastFrameAt, clockVars,
                   sendMode>>
    /\ TunFrame

\* the entries performHealthChecks finds inactive
Stale(meta) == {i \in DOMAIN meta : now - meta[i].lastActive > Threshold}

\* the maps without the peers of a set
RECURSIVE MapDelAll(_, _)
MapDelAll(map, ks) ==
    IF ks = {} THEN map
    ELSE LET k == CHOOSE x \in ks : TRUE IN MapDelAll(MapDel(map, k), ks \ {k})

\* performHealthChecks of both classes: part_009 marks every evicted peer's node
\* offline and sends a heartbeat to the others
performHealthChecks ==
    /\ sweeps < MaxSweeps
    /\ now >= SweepPeriod
    /\ sweeps' = sweeps + 1
    /\ LET stale == Stale(peerMetadata)
           ids == {peerMetadata[i].peerId : i \in stale}
           closedConns == {MapGet(connectedPeers, k) : k \in ids} \ {0}
           kept(e) == e.peerId \notin ids
           alive == {MapGet(connectedPeers, peerMetadata[i].peerId) :
                        i \in DOMAIN peerMetadata \ stale} \ {0}
       IN  /\ sock' = [c \in ConnIds |-> IF c \in closedConns /\ sock[c] = "open"
                                         THEN "closing" ELSE sock[c]]
           /\ connectedPeers' = MapDelAll(connectedPeers, ids)
           /\ peerMetadata' = SelectSeq(peerMetadata, kept)
           /\ pending' = pending \cup
                 {[Pending("offline", MapGet(connectedPeers, peerMetadata[i].peerId), 0)
                      EXCEPT !.nodeId = peerMetadata[i].nodeId] :
                  i \in {j \in stale : impl = "tunnel" => peerMetadata[j].nodeId # "browser-client"}}
           /\ outbox' = IF impl = "tunnel" THEN outbox
                        ELSE [c \in ConnIds |-> IF c \in alive /\ sock[c] = "open"
                                                THEN outbox[c] \cup {Out("heartbeat", 0, 0)}
                                                ELSE outbox[c]]
    /\ UNCHANGED <<impl, listener, hooked, peerIdOf, effects, peerConnections, frameCount,
                   lastFrameAt, now, connectedAt, timerFired, advances, timed, storageNodes,
                   sendMode>>
    /\ TunFrame

\* the setTimeout of a connection has yet to run; part_009 sets none
TimeoutArmed(c) == impl = "tunnel" /\ sock[c] # "none" /\ ~timerFired[c]

\* the setTimeout of the connection handler in tunnel.ts
authTimeout(c) ==
    /\ impl = "tunnel"
    /\ sock[c] # "none"
    /\ ~timerFired[c]
    /\ now >= connectedAt[c] + AuthWindow
    /\ timerFired' = [timerFired EXCEPT ![c] = TRUE]
    /\ IF TempId(c) \in DOMAIN connectedPeers
       THEN /\ sock' = Close(sock, c)
            /\ connectedPeers' = MapDel(connectedPeers, TempId(c))
       ELSE UNCHANGED <<sock, connectedPeers>>
    /\ UNCHANGED <<impl, listener, hooked, peerIdOf, peerMetadata, pending, outbox, effects,
                   peerConnections, frameCount, lastFrameAt, now, connectedAt, advances,
                   sweeps, timed, storageNodes, sendMode>>
    /\ TunFrame

\* the setInterval of setupMessageHandling in tunnel.ts
heartbeatInterval(c) ==
    /\ impl = "tunnel"
    /\ hooked[c]
    /\ now >= connectedAt[c] + HeartbeatPeriod
    /\ sock[c] = "open"
    /\ Out("heartbeat", 0, 0) \notin outbox[c]
    /\ outbox' = Deliver(outbox, c, Out("heartbeat", 0, 0))
    /\ UNCHANGED <<impl, sock, listener, hooked, peerIdOf, connectedPeers, peerMetadata,
                   pending, effects, peerConnections, frameCount, lastFrameAt, clockVars,
                   storageNodes, sendMode>>
    /\ TunFrame

\* time passes
TunAdvance(d) ==
    /\ advances < MaxAdvances
    /\ advances' = advances + 1
    /\ now' = now + d
    /\ UNCHANGED <<impl, sock, listener, hooked, peerIdOf, connectedPeers, peerMetadata,
                   pending, outbox, effects, peerConnections, frameCount, lastFrameAt,
                   connectedAt, timerFired, sweeps, timed, storageNodes, sendMode>>
    /\ TunFrame

TunNext ==
    \/ \E c \in ConnIds : TunConnect(c)
    \/ \E c \in ConnIds : \E f \in Frames(c) : TunUnheard(c, f)
    \/ \E c \in ConnIds : \E f \in Frames(c) : authHandler(c, f)
    \/ \E p \in pending : authHandlerResume(p)
    \/ \E c \in ConnIds : \E f \in Frames(c) : authHandlerOld(c, f)
    \/ \E p \in pending : authHandlerOldResume(p)
    \/ \E c \in ConnIds : \E f \in Frames(c) : messageHandler(c, f)
    \/ \E p \in pending, inserted \in BOOLEAN : forwardToTargetPeer(p, inserted)
    \/ \E c \in ConnIds : \E f \in Frames(c) : messageHandlerOld(c, f)
    \/ \E p \in pending, inserted \in BOOLEAN : forwardToTargetPeerOld(p, inserted)
    \/ \E p \in pending : handlePeerDiscovery(p)
    \/ \E p \in pending : nodeMetricsUpdate(p)
    \/ \E c \in ConnIds : closeHandler(c)
    \/ \E c \in ConnIds : closeHandlerOld(c)
    \/ \E p \in pending : closeHandlerOldResume(p)
    \/ \E p \in pending : nodeOfflineUpdate(p)

\* a run with timers: its peers authenticate, send heartbeats and go
TunTimedNext ==
    \/ \E c \in ConnIds : TunConnect(c)
    \/ \E c \in ConnIds : \E f \in TimedFrames : TunUnheard(c, f)
    \/ \E c \in ConnIds : \E f \in TimedFrames : authHandler(c, f)
    \/ \E p \in pending : authHandlerResume(p)
    \/ \E c \in ConnIds : \E f \in TimedFrames : authHandlerOld(c, f)
    \/ \E p \in pending : authHandlerOldResume(p)
    \/ \E c \in ConnIds : \E f \in TimedFrames : messageHandler(c, f)
    \/ \E c \in ConnIds : \E f \in TimedFrames : messageHandlerOld(c, f)
    \/ \E c \in ConnIds : closeHandler(c)
    \/ \E c \in ConnIds : closeHandlerOld(c)
    \/ \E p \in pending : closeHandlerOldResume(p)
    \/ \E p \in pending : nodeOfflineUpdate(p)
    \/ performHealthChecks
    \/ \E c \in ConnIds : authTimeout(c)
    \/ \E c \in ConnIds : heartbeatInterval(c)
    \/ \E d \in TimeSteps : TunAdvance(d)

(***************************************************************************)
(* P2PClient (src/client/src/lib/p2pClient.ts): one client in a browser.   *)
(* Every WebSocket the client creates is an object of its own with its own *)
(* handlers; the field socket refers to one of them or to none.  A timer   *)
(* runs when it is due: the clock does not pass the time a timer is set    *)
(* for before the timer has run.                                           *)
(***************************************************************************)

\* the discoverPeers and requestChunk calls of a run, the frames the client
\* receives, and the times its connection closes while calls are made
MaxCliCalls == 2
MaxCliFrames == 2
MaxCliCloses == 1

\* the WebSocket objects a client creates in a run, and how many of them the
\* application asks for
MaxSockets == 7
MaxAppSockets == 2

\* the longest step of the clock and the time a run ends, in ms
CliTick == 10000
MaxCliNow == 40000

\* the timeouts of discoverPeers and requestChunk, in ms
DiscoveryTimeout == 10000
ChunkTimeout == 30000

maxReconnectAttempts == 5

\* the delays of attemptReconnect, in ms
ReconnectBase == 1000
ReconnectCap == 30000

CliCallIds == 1..MaxCliCalls
SocketIds == 1..MaxSockets

\* the chunk a requestChunk call asks for, and another one
TheChunk == 1
OtherChunk == 2

RECURSIVE Pow2(_)
Pow2(e) == IF e = 0 THEN 1 ELSE 2 * Pow2(e - 1)

\* a frame the tunnel delivers; data is "ok" (base64), "bad" (atob throws on it)
\* or "" (none)
ServerFrame(type) == [type |-> type, chunkId |-> 0, error |-> FALSE, data |-> ""]

\* the frames that reach the client: the results of its calls, the error the
\* tunnel reports, a response atob cannot decode, a response for another chunk,
\* a heartbeat, and a frame JSON.parse throws on
CliFramesIn ==
    {ServerFrame("peer_discovery_result"), ServerFrame("heartbeat"), ServerFrame("malformed"),
     [ServerFrame("chunk_response") EXCEPT !.chunkId = TheChunk, !.data = "ok"],
     [ServerFrame("chunk_response") EXCEPT !.chunkId = TheChunk, !.error = TRUE],
     [ServerFrame("chunk_response") EXCEPT !.chunkId = TheChunk, !.data = "bad"],
     [ServerFrame("chunk_response") EXCEPT !.chunkId = OtherChunk, !.data = "ok"]}

\* the answers of the tunnel to the auth frame
AuthReplies == {ServerFrame("auth_success"), ServerFrame("auth_error")}

\* a call: its promise (state, reason), the socket its listener was added to and
\* whether it is still there, and its setTimeout
NoCliCall ==
    [state |-> "idle", kind |-> "none", chunkId |-> 0, startedAt |-> 0, gen |-> 0,
     listening |-> FALSE, timer |-> FALSE, reason |-> "none"]

Timeout(kind) == IF kind = "discovery" THEN DiscoveryTimeout ELSE ChunkTimeout

CliInit ==
    /\ socket = 0
    /\ wsState = [g \in SocketIds |-> "none"]
    /\ socketGen = 0
    /\ cliPeerId = ""
    /\ reconnectAttempts = 0
    /\ reconnectTimeout = -1
    /\ timers = {}
    /\ cliCalls = [c \in CliCallIds |-> NoCliCall]
    /\ cliSent = {}
    /\ cliInbox = {}
    /\ cliNow = 0
    /\ cliCloses = 0
    /\ autoReconnects = 0
    /\ userClosed = FALSE

\* this.socket && this.socket.readyState === WebSocket.OPEN
SocketOpen == socket # 0 /\ wsState[socket] = "open"

\* WebSocket.close()
CloseSocket(ws, g) ==
    [ws EXCEPT ![g] = IF @ \in {"connecting", "open"} THEN "closing" ELSE @]

\* resolve and reject of a promise: a settled promise stays as it is
Resolve(call) == IF call.state = "pending" THEN [call EXCEPT !.state = "resolved"] ELSE call
Reject(call, reason) ==
    IF call.state = "pending" THEN [call EXCEPT !.state = "rejected", !.reason = reason]
    ELSE call

\* this.socket?.removeEventListener("message", messageHandler): the listener
\* is removed if it is on the socket the client has now
RemoveListener(call) ==
    IF socket # 0 /\ call.gen = socket THEN [call EXCEPT !.listening = FALSE] ELSE call

\* the body of connect(): a socket the client has is closed and let go, and a new
\* WebSocket is created
Connect ==
    /\ socketGen < MaxSockets
    /\ socketGen' = socketGen + 1
    /\ wsState' = [(IF socket # 0 THEN CloseSocket(wsState, socket) ELSE wsState)
                      EXCEPT ![socketGen + 1] = "connecting"]
    /\ socket' = socketGen + 1
    /\ cliPeerId' = IF socket # 0 THEN "" ELSE cliPeerId

\* connect() called by the application
connect ==
    /\ Connect
    /\ userClosed' = FALSE
    /\ UNCHANGED <<reconnectAttempts, reconnectTimeout, timers, cliCalls, cliSent, cliInbox,
                   cliNow, cliCloses, autoReconnects>>
    /\ CliFrame

\* disconnect(): the reconnect timer whose handle is stored is cleared, the
\* socket closed and let go
disconnect ==
    /\ socketGen > 0
    /\ ~userClosed
    /\ userClosed' = TRUE
    /\ timers' = {t \in timers : t.id # reconnectTimeout}
    /\ reconnectTimeout' = -1
    /\ IF socket # 0
       THEN /\ wsState' = CloseSocket(wsState, socket)
            /\ socket' = 0
            /\ cliPeerId' = ""
       ELSE UNCHANGED <<wsState, socket, cliPeerId>>
    /\ UNCHANGED <<socketGen, reconnectAttempts, cliCalls, cliSent, cliInbox, cliNow,
                   cliCloses, autoReconnects>>
    /\ CliFrame

\* onopen of socket g: this.socket.send(auth) on the socket the client has now,
\* and reconnectAttempts = 0 unless the send threw (no socket, or one that is
\* still connecting)
onopen(g) ==
    /\ wsState[g] = "connecting"
    /\ wsState' = [wsState EXCEPT ![g] = "open"]
    /\ cliSent' = IF socket # 0 /\ wsState'[socket] = "open"
                  THEN cliSent \cup {[type |-> "auth", gen |-> socket, call |-> 0]}
                  ELSE cliSent
    /\ reconnectAttempts' = IF socket # 0 /\ wsState'[socket] # "connecting"
                            THEN 0 ELSE reconnectAttempts
    /\ UNCHANGED <<socket, socketGen, cliPeerId, reconnectTimeout, timers, cliCalls, cliInbox,
                   cliNow, cliCloses, autoReconnects, userClosed>>
    /\ CliFrame

\* onclose of socket g: this.socket = null, then attemptReconnect
onclose(g) ==
    /\ wsState[g] \in {"connecting", "open", "closing"}
    /\ wsState' = [wsState EXCEPT ![g] = "closed"]
    /\ cliCloses' = cliCloses + 1
    /\ socket' = 0
    /\ IF reconnectAttempts >= maxReconnectAttempts
       THEN UNCHANGED <<reconnectAttempts, reconnectTimeout, timers, autoReconnects>>
       ELSE /\ reconnectAttempts' = reconnectAttempts + 1
            /\ autoReconnects' = autoReconnects + 1
            /\ reconnectTimeout' = g
            /\ timers' = timers \cup
                  {[id |-> g,
                    due |-> cliNow + Min(ReconnectBase * Pow2(reconnectAttempts), ReconnectCap)]}
    /\ UNCHANGED <<socketGen, cliPeerId, cliCalls, cliSent, cliInbox, cliNow, userClosed>>
    /\ CliFrame

\* a timer of attemptReconnect runs: connect()
reconnect(t) ==
    /\ t \in timers
    /\ cliNow >= t.due
    /\ timers' = timers \ {t}
    /\ Connect
    /\ UNCHANGED <<reconnectAttempts, reconnectTimeout, cliCalls, cliSent, cliInbox, cliNow,
                   cliCloses, autoReconnects, userClosed>>
    /\ CliFrame

\* a call that found the socket open: listener added, request sent, timer set
Started(kind, chunkId) ==
    [state |-> "pending", kind |-> kind, chunkId |-> chunkId, startedAt |-> cliNow,
     gen |-> socket, listening |-> TRUE, timer |-> TRUE, reason |-> "none"]

\* a call that found no open socket
NotConnected(kind, chunkId) ==
    [NoCliCall EXCEPT !.state = "rejected", !.kind = kind, !.chunkId = chunkId,
                      !.startedAt = cliNow, !.reason = "notConnected"]

discoverPeers(c) ==
    /\ cliCalls[c].state = "idle"
    /\ c > 1 => cliCalls[c - 1].state # "idle"
    /\ IF SocketOpen
       THEN /\ cliCalls' = [cliCalls EXCEPT ![c] = Started("discovery", 0)]
            /\ cliSent' = cliSent \cup {[type |-> "peer_discovery", gen |-> socket, call |-> c]}
       ELSE /\ cliCalls' = [cliCalls EXCEPT ![c] = NotConnected("discovery", 0)]
            /\ UNCHANGED cliSent
    /\ UNCHANGED <<socket, wsState, socketGen, cliPeerId, reconnectAttempts, reconnectTimeout,
                   timers, cliInbox, cliNow, cliCloses, autoReconnects, userClosed>>
    /\ CliFrame

requestChunk(c, chunkId) ==
    /\ cliCalls[c].state = "idle"
    /\ c > 1 => cliCalls[c - 1].state # "idle"
    /\ IF SocketOpen
       THEN /\ cliCalls' = [cliCalls EXCEPT ![c] = Started("chunk", chunkId)]
            /\ cliSent' = cliSent \cup {[type |-> "chunk_request", gen |-> socket, call |-> c]}
       ELSE /\ cliCalls' = [cliCalls EXCEPT ![c] = NotConnected("chunk", chunkId)]
            /\ UNCHANGED cliSent
    /\ UNCHANGED <<socket, wsState, socketGen, cliPeerId, reconnectAttempts, reconnectTimeout,
                   timers, cliInbox, cliNow, cliCloses, autoReconnects, userClosed>>
    /\ CliFrame

\* the frame is the response a call waits for
Matches(call, f) ==
    \/ call.kind = "discovery" /\ f.type = "peer_discovery_result"
    \/ call.kind = "chunk" /\ f.type = "chunk_response" /\ f.chunkId = call.chunkId

\* messageHandler of a call: a frame that is not its response is left alone; on
\* its response the listener is removed and the promise settled, unless atob
\* throws on the data
OnMessage(call, f) ==
    IF ~Matches(call, f) THEN call
    ELSE IF call.kind = "discovery" THEN Resolve(RemoveListener(call))
    ELSE IF f.error THEN Reject(RemoveListener(call), "errorResponse")
    ELSE IF f.data # "ok" THEN RemoveListener(call)
    ELSE Resolve(RemoveListener(call))

\* a 'message' event of socket g: onmessage takes the peerId of auth_success and
\* answers a heartbeat on the socket the client has now, and the listeners the
\* calls added to socket g run
onmessage(g, f) ==
    /\ wsState[g] = "open"
    /\ Cardinality(cliInbox) < MaxCliFrames
    /\ cliInbox' = cliInbox \cup {[frame |-> f, gen |-> g]}
    /\ cliPeerId' = IF f.type = "auth_success" THEN "assigned" ELSE cliPeerId
    /\ autoReconnects' = IF f.type = "auth_success" THEN 0 ELSE autoReconnects
    /\ cliSent' = IF f.type = "heartbeat" /\ SocketOpen
                  THEN cliSent \cup {[type |-> "heartbeat_ack", gen |-> socket, call |-> 0]}
                  ELSE cliSent
    /\ cliCalls' = [c \in CliCallIds |->
                       IF cliCalls[c].listening /\ cliCalls[c].gen = g
                       THEN OnMessage(cliCalls[c], f) ELSE cliCalls[c]]
    /\ UNCHANGED <<socket, wsState, socketGen, reconnectAttempts, reconnectTimeout, timers,
                   cliNow, cliCloses, userClosed>>
    /\ CliFrame

\* a timer callback that settles nothing
TimerCleared(call) == [call EXCEPT !.timer = FALSE]

\* the callback of the setTimeout of a call: the listener is removed and the
\* promise rejected
TimedOut(call) == Reject(RemoveListener([call EXCEPT !.timer = FALSE]), "timeout")

callTimeout(c) ==
    /\ cliCalls[c].timer
    /\ cliNow >= cliCalls[c].startedAt + Timeout(cliCalls[c].kind)
    /\ cliCalls' = [cliCalls EXCEPT ![c] = TimedOut(cliCalls[c])]
    /\ UNCHANGED <<socket, wsState, socketGen, cliPeerId, reconnectAttempts, reconnectTimeout,
                   timers, cliSent, cliInbox, cliNow, cliCloses, autoReconnects, userClosed>>
    /\ CliFrame

\* the times the timers that are set are due
Deadlines ==
    {cliCalls[c].startedAt + Timeout(cliCalls[c].kind) : c \in {d \in CliCallIds : cliCalls[d].timer}}
        \cup {t.due : t \in timers}

\* time passes, up to the next time a timer is due
cliAdvance ==
    /\ cliNow < MaxCliNow
    /\ \A t \in Deadlines : t > cliNow
    /\ LET to == {cliNow + CliTick} \cup Deadlines
       IN  cliNow' = CHOOSE t \in to : \A u \in to : t <= u
    /\ UNCHANGED <<socket, wsState, socketGen, cliPeerId, reconnectAttempts, reconnectTimeout,
                   timers, cliCalls, cliSent, cliInbox, cliCloses, autoReconnects, userClosed>>
    /\ CliFrame

\* the calls of a client that connects once and whose connection may close
CliNext ==
    \/ socketGen = 0 /\ connect
    \/ \E g \in SocketIds : onopen(g)
    \/ \E g \in SocketIds : cliCloses < MaxCliCloses /\ onclose(g)
    \/ \E t \in timers : reconnect(t)
    \/ \E c \in CliCallIds : discoverPeers(c)
    \/ \E c \in CliCallIds : requestChunk(c, TheChunk)
    \/ \E g \in SocketIds, f \in CliFramesIn : onmessage(g, f)
    \/ \E c \in CliCallIds : callTimeout(c)
    \/ cliAdvance

\* the connection of a client that makes no calls: the application connects and
\* disconnects, sockets open and close, the tunnel answers one auth frame, and
\* time passes while a reconnect timer is set
CliConnNext ==
    \/ socketGen < MaxAppSockets /\ connect
    \/ disconnect
    \/ \E g \in SocketIds : onopen(g)
    \/ \E g \in SocketIds : onclose(g)
    \/ \E t \in timers : reconnect(t)
    \/ \E g \in SocketIds, f \in AuthReplies : cliInbox = {} /\ onmessage(g, f)
    \/ timers # {} /\ cliAdvance

TunIdle ==
    /\ impl = "none"
    /\ sock = <<>>
    /\ listener = <<>>
    /\ hooked = <<>>
    /\ peerIdOf = <<>>
    /\ connectedPeers = <<>>
    /\ peerMetadata = <<>>
    /\ pending = {}
    /\ outbox = <<>>
    /\ effects = <<>>
    /\ peerConnections = {}
    /\ frameCount = <<>>
    /\ lastFrameAt = <<>>
    /\ now = 0
    /\ connectedAt = <<>>
    /\ timerFired = <<>>
    /\ advances = 0
    /\ sweeps = 0
    /\ timed = FALSE

\* the subsystems at rest
RepIdle ==
    /\ repStore = <<>>
    /\ repCalls = <<>>
    /\ repApplied = <<>>
    /\ repInit = <<>>
    /\ repLast = <<>>

EcIdle ==
    /\ ecData = <<>>
    /\ ecLevel = 0
    /\ ecPc = "idle"
    /\ ecChunks = <<>>
    /\ ecMap = <<>>
    /\ ecOut = <<>>

RetIdle == retCalls = <<>>

CliIdle ==
    /\ socket = 0
    /\ wsState = <<>>
    /\ socketGen = 0
    /\ cliPeerId = ""
    /\ reconnectAttempts = 0
    /\ reconnectTimeout = -1
    /\ timers = {}
    /\ autoReconnects = 0
    /\ userClosed = FALSE
    /\ cliCalls = <<>>
    /\ cliSent = {}
    /\ cliInbox = {}
    /\ cliNow = 0
    /\ cliCloses = 0

SideIdle == RetIdle /\ CliIdle

EnvUnset == copyMode = "unset" /\ sendMode = "unset"

InitRep == RepInit /\ EcIdle /\ DistIdle /\ TunIdle /\ SideIdle /\ EnvUnset

InitEC ==
    /\ EcInit /\ RepIdle /\ DistIdle /\ TunIdle /\ SideIdle
    /\ copyMode \in {"strict", "lenient"} /\ sendMode = "unset"

InitDist == DistInit /\ RepIdle /\ EcIdle /\ TunIdle /\ SideIdle /\ EnvUnset

InitTunnel == TunInitUntimed /\ RepIdle /\ EcIdle /\ FilesIdle /\ SideIdle /\ EnvUnset

InitTunnelTimed == TunInitTimed /\ RepIdle /\ EcIdle /\ FilesIdle /\ SideIdle /\ EnvUnset

InitRetrieve == RetInit /\ RepIdle /\ EcIdle /\ TunIdle /\ CliIdle /\ EnvUnset

InitStore == StoreInit /\ RepIdle /\ EcIdle /\ TunIdle /\ CliIdle /\ EnvUnset

InitClient == CliInit /\ RepIdle /\ EcIdle /\ DistIdle /\ TunIdle /\ RetIdle /\ EnvUnset

\* a sequence of recordEvent calls
SpecRep == InitRep /\ [][RepNext]_vars

\* recordEvent calls that overlap
SpecRepConc == InitRep /\ [][RepConcNext]_vars

SpecEC == InitEC /\ [][EcNext]_vars

\* processFileForDistribution calls, overlapping or one after another
SpecDist == InitDist /\ [][DistNext]_vars

SpecTunnel == InitTunnel /\ [][TunNext]_vars

SpecTunnelTimed == InitTunnelTimed /\ [][TunTimedNext]_vars

\* retrieveFile calls on a database at rest
SpecRetrieve == InitRetrieve /\ [][RetNext]_vars

\* one P2PClient, its calls, its connection and its timers
SpecClient == InitClient /\ [][CliNext]_vars

\* one file distributed and retrieved; every step that can be taken is taken in
\* the end: the calls run on, and the owner calls retrieveFile again
SpecStore == InitStore /\ [][StoreNext]_vars /\ WF_vars(StoreNext)

\* one P2PClient and its connection: connect, disconnect, close and reconnect
SpecClientConn == InitClient /\ [][CliConnNext]_vars

(***************************************************************************)
(* Claims                                                                  *)
(***************************************************************************)

\* ---- C6 ----------------------------------------------------------------
\* C6: after every event of every sequence of recordEvent calls, the score
\* is within [0,100] and the uptime is within [0,100].
C6_ScoreAndUptimeInRange ==
    Len(repApplied) > 0 =>
        /\ repStore.score \in 0..100
        /\ DecWithin(repStore.uptime, 0, 100)
        /\ repLast[1].after = repStore

\* a failed uptime check and a slow latency check have both been recorded
C6_Witness ==
    /\ \E i \in DOMAIN repApplied :
          repApplied[i].eventType = "uptime_check" /\ ~repApplied[i].successful
    /\ \E i \in DOMAIN repApplied :
          repApplied[i].eventType = "latency_check" /\ repApplied[i].responseTime = 9000
    /\ repStore.score < 50

\* ---- C7 ----------------------------------------------------------------
\* C7: for every buffer B and level 1..5, decoding the chunks encode made of B
\* under the layout of calculateOptimalChunks, all chunks available, returns B.
C7_RoundTrip ==
    /\ ecPc # "encodeThrew"
    /\ (ecPc \in {"decoded", "decodeThrew"} /\ (\A i \in DOMAIN ecMap : ecMap[i]))
          => (ecPc = "decoded" /\ ecOut = ecData)

\* ---- C9 ----------------------------------------------------------------
RECURSIVE ApplyAll(_, _)
ApplyAll(events, score) ==
    IF events = <<>> THEN score
    ELSE ApplyAll(Tail(events), processEvent(Head(events), score))

SerialOrders(seq) ==
    {[i \in DOMAIN seq |-> seq[f[i]]] :
        f \in {g \in [DOMAIN seq -> DOMAIN seq] : \A i, j \in DOMAIN seq : g[i] = g[j] => i = j}}

PlacementsOf(chunkId) == {p \in chunkPlacements : p.chunkId = chunkId}
NodesOf(chunkId) == {p.nodeId : p \in PlacementsOf(chunkId)}

\* a call that ran determineChunkPlacement to its end
Returned(c) == distCalls[c].pc = "done" /\ distCalls[c].result \in {"success", "failure"}

\* C1: a distribute call that found at least one but fewer than reliabilityLevel
\* eligible nodes returns success:false and leaves the file pending, never backed_up
C1_PartialPlacementFails ==
    \A c \in DistCallIds :
        (/\ Returned(c)
         /\ Len(distCalls[c].availableNodes) >= 1
         /\ Len(distCalls[c].availableNodes) < distCalls[c].reliability)
        => /\ distCalls[c].result = "failure"
           /\ distCalls[c].placedCount < Len(distCalls[c].chunkIds)
           /\ distCalls[c].statusSet = "pending"

\* C2: after a distribute call every fragment it created has exactly
\* min(reliabilityLevel, eligible nodes) placements, on pairwise distinct nodes, and so
\* never more than reliabilityLevel of them; while the call runs it has no more
C2_PlacementsPerFragment ==
    \A c \in DistCallIds :
        LET call == distCalls[c]
            want == Min(call.reliability, Len(call.availableNodes))
        IN  \A i \in DOMAIN call.chunkIds :
                LET id == call.chunkIds[i]
                IN  /\ Cardinality(PlacementsOf(id)) <= call.reliability
                    /\ Cardinality(NodesOf(id)) = Cardinality(PlacementsOf(id))
                    /\ Returned(c) => Cardinality(PlacementsOf(id)) = want

C2_Witness ==
    \E c \in DistCallIds :
        /\ Returned(c)
        /\ distCalls[c].reliability = 1
        /\ Len(distCalls[c].availableNodes) = MaxNodes
        /\ \A i \in DOMAIN distCalls[c].chunkIds :
               Cardinality(PlacementsOf(distCalls[c].chunkIds[i])) = 1
        /\ \E d \in DistCallIds :
               /\ Returned(d)
               /\ distCalls[d].reliability = 5
               /\ Len(distCalls[d].chunkIds) = 6
               /\ Cardinality(PlacementsOf(distCalls[d].chunkIds[6])) = MaxNodes

RECURSIVE SumSizes(_)
SumSizes(rows) ==
    IF rows = {} THEN 0
    ELSE LET r == CHOOSE x \in rows : TRUE IN r.size + SumSizes(rows \ {r})

\* storage_available is kept in MB, the size of a fragment in bytes
BytesPerMB == 1048576

\* the bytes of the fragments placed on a node
AssignedBytes(n) == SumSizes({r \in fileChunks : n \in NodesOf(r.id)})

\* C8: after concurrent distribute calls no node has been assigned fragments whose
\* total size exceeds the capacity it had available
C8_NoDoubleBooking ==
    (\A c \in DistCallIds : Returned(c))
    => \A n \in NodeIds : AssignedBytes(n) <= storageNodes[n].storageAvailable * BytesPerMB

\* a connection that completed authentication and is open
Authenticated(c) == sock[c] = "open" /\ listener[c] = "msg" /\ peerIdOf[c] # ""

\* no authenticated peer of that nodeId is in the metadata map
Unavailable(nodeId) == \A i \in DOMAIN peerMetadata : peerMetadata[i].nodeId # nodeId

\* the 'message' listener of an authenticated connection takes frame f of c
Handles(c, f) == messageHandler(c, f) \/ messageHandlerOld(c, f)

\* C3: when an authenticated peer sends a chunk_request whose target nodeId has no
\* connected authenticated peer, the connection that sent it receives an error frame
\* for that request, whatever other fields the frame carries
C3_ErrorToRequester ==
    [][\A c \in ConnIds : \A f \in ChunkRequests(c) :
          (Authenticated(c) /\ Unavailable(f.targetNodeId) /\ Handles(c, f))
          => \E o \in outbox'[c] :
                 o.type = "chunk_response" /\ o.error /\ o.conn = c /\ o.idx = frameCount'[c]]_vars

\* a first frame that is not a valid auth frame: wrong type, unparsable, no userId
Invalid(f) == f.type # "auth" \/ f.userId = 0

\* the authentication listener takes frame f of c
Authenticates(c, f) == authHandler(c, f) \/ authHandlerOld(c, f)

\* connection c is in the metadata map
InMetadata(c) ==
    \/ \E i \in DOMAIN peerMetadata : peerMetadata[i].peerId = RandId(c)
    \/ peerIdOf[c] # "" /\ MapGet(connectedPeers, peerIdOf[c]) = c
           /\ MetaGet(peerMetadata, peerIdOf[c]) # 0

Refused(c) == \E o \in outbox[c] : o.type = "auth_error"

\* C4: a first frame that is not a valid auth frame is answered with auth_error and
\* the connection is closed, and a connection so refused never enters the
\* Authenticated state or the metadata map
C4_AuthBeforeAnything ==
    /\ [][\A c \in ConnIds : \A f \in Frames(c) :
             (sock[c] = "open" /\ frameCount[c] = 0 /\ Invalid(f) /\ Authenticates(c, f))
             => /\ \E o \in outbox'[c] : o.type = "auth_error"
                /\ sock'[c] # "open"]_vars
    /\ [](\A c \in ConnIds : Refused(c) => peerIdOf[c] = "" /\ ~InMetadata(c))

\* the node of an authenticated connection, "" if it is no storage node
NodeOf(c) ==
    LET m == MetaGet(peerMetadata, peerIdOf[c])
    IN  IF m # 0 /\ \E n \in NodeIds : NodeName(n) = peerMetadata[m].nodeId
        THEN peerMetadata[m].nodeId ELSE ""

\* C5: at a health sweep an authenticated peer that sent no frame for longer than
\* the threshold is closed and removed from both maps, and its node goes offline; a
\* peer that was active within the threshold is left open and its entries in place
C5_InactivityEviction ==
    [][sweeps' = sweeps + 1 =>
          \A c \in ConnIds :
              Authenticated(c) =>
                  IF now - lastFrameAt[c] > Threshold
                  THEN /\ sock'[c] # "open"
                       /\ MapGet(connectedPeers', peerIdOf[c]) # c
                       /\ MetaGet(peerMetadata', peerIdOf[c]) = 0
                       /\ NodeOf(c) # "" =>
                              \E p \in pending' : p.kind = "offline" /\ p.nodeId = NodeOf(c)
                  ELSE /\ sock'[c] = "open"
                       /\ MapGet(connectedPeers', peerIdOf[c]) = MapGet(connectedPeers, peerIdOf[c])
                       /\ (MetaGet(peerMetadata', peerIdOf[c]) # 0)
                              = (MetaGet(peerMetadata, peerIdOf[c]) # 0)]_vars

\* C10: on one connection every effect of an earlier frame (a frame forwarded, a
\* reply sent, a row written) takes place before any effect of a later frame
C10_ArrivalOrder ==
    \A c \in ConnIds :
        \A i, j \in DOMAIN effects[c] : i < j => effects[c][i] <= effects[c][j]

\* ---- C19 ---------------------------------------------------------------
\* two fractions of positive denominators are the same number
FracEq(a, b) == a.n * b.d = b.n * a.d

\* successes / (successes + failures) * 100, and 100 while nothing was observed
SuccessShare(s, f) == IF s + f = 0 THEN Frac(100, 1) ELSE Frac(100 * s, s + f)

\* C19: after every event the retrievalSuccessRate that goes into the composite
\* score is successes / (successes + failures) * 100 whenever a retrieval outcome
\* (success, failure or chunk_lost) has been recorded, and 100 only when
\* successes + failures = 0
C19_RetrievalSuccessRate ==
    \A i \in DOMAIN repLast :
        LET a == repLast[i].after
            used == RetrievalSuccessRate(a.successfulRetrievals, a.failedRetrievals)
        IN  /\ FracEq(used, SuccessShare(a.successfulRetrievals, a.failedRetrievals))
            /\ a.score = calculateScore(a.uptime, a.responseTime, used,
                                        StorageStability(a.failedRetrievals, a.totalChunksStored))

\* ---- C20 ---------------------------------------------------------------
\* C20: isProviderReliable(score) is true exactly when score.score >= 70 and
\* score.uptime >= 90: for every score a sequence of events leads to, and so never
\* for an uptime below 90, however high the composite score
C20_ReliableIffScoreAndUptime ==
    /\ isProviderReliable(repStore)
          <=> (repStore.score >= 70 /\ ~(repStore.uptime.n < 90 * Pow10(repStore.uptime.e)))
    /\ repStore.uptime.n < 90 * Pow10(repStore.uptime.e) => ~isProviderReliable(repStore)

\* after an event the composite score is 90 or more and the uptime is below 90
C20_Witness ==
    /\ Len(repApplied) > 0
    /\ repStore.score >= 90
    /\ repStore.uptime.n < 90 * Pow10(repStore.uptime.e)
    /\ ~isProviderReliable(repStore)

\* ---- C12 ---------------------------------------------------------------
\* status online and reputation of 70 or more, as the rows stand
OnlineAndReputable(n) ==
    storageNodes[n].status = "online" /\ storageNodes[n].reputation >= 70

\* the call reads its candidates in this step
SelectsCandidates(c) == ~distCalls[c].selected /\ distCalls'[c].selected

\* the nodes of a sequence
NodesIn(nodes) == {nodes[i] : i \in DOMAIN nodes}

\* C12: the candidates of a distribute call are the nodes that are online with a
\* reputation of 70 or more when it selects them, in descending order of
\* reputation; every placement is on a candidate, and no candidate of a strictly
\* higher reputation than a node chosen for a fragment is left out of that fragment
C12_PlacementOnBestCandidates ==
    /\ [][\A c \in DistCallIds :
             SelectsCandidates(c) =>
                LET nodes == distCalls'[c].availableNodes
                IN  /\ NodesIn(nodes) = {n \in NodeIds : OnlineAndReputable(n)}
                    /\ \A i, j \in DOMAIN nodes :
                           i < j => /\ nodes[i] # nodes[j]
                                    /\ storageNodes[nodes[i]].reputation
                                           >= storageNodes[nodes[j]].reputation]_vars
    /\ [](\A c \in DistCallIds :
             \A i \in DOMAIN distCalls[c].chunkIds :
                LET chosen == NodesOf(distCalls[c].chunkIds[i])
                    candidates == NodesIn(distCalls[c].availableNodes)
                IN  /\ chosen \subseteq candidates
                    /\ \A n \in chosen : \A b \in candidates \ chosen :
                           storageNodes[b].reputation <= storageNodes[n].reputation)

\* a call at level 1 had three candidates and placed every fragment on the one of
\* the highest reputation, which has gone offline since
C12_Witness ==
    \E c \in DistCallIds :
        /\ Returned(c)
        /\ distCalls[c].reliability = 1
        /\ Len(distCalls[c].availableNodes) = MaxNodes
        /\ \A i \in DOMAIN distCalls[c].chunkIds : NodesOf(distCalls[c].chunkIds[i]) = {2}
        /\ storageNodes[2].status = "offline"
        /\ \A n \in NodeIds \ {2} : storageNodes[n].reputation < storageNodes[2].reputation

\* ---- C13 ---------------------------------------------------------------
\* a call on a file that exists has ended, one way or the other
Ended(c) == distCalls[c].pc = "done" /\ distCalls[c].fileId \in DOMAIN files

\* the nodes online with a reputation of 70 or more; no status has changed in the run
EnoughNodesThroughout(c) ==
    /\ nodeFlips = 0
    /\ Cardinality({n \in NodeIds : OnlineAndReputable(n)}) >= distCalls[c].reliability

\* C13: with at least reliabilityLevel eligible nodes from its start to its end, a
\* distribute call gives every data and parity fragment exactly reliabilityLevel
\* placements, sets the file backed_up and returns success with the file key
C13_FullPlacementSucceeds ==
    \A c \in DistCallIds :
        (Ended(c) /\ EnoughNodesThroughout(c))
        => /\ distCalls[c].result = "success"
           /\ distCalls[c].statusSet = "backed_up"
           /\ Len(distCalls[c].chunkIds) = distCalls[c].dataChunks + distCalls[c].parityChunks
           /\ distCalls[c].dataChunks >= 3
           /\ \A i \in DOMAIN distCalls[c].chunkIds :
                  Cardinality(PlacementsOf(distCalls[c].chunkIds[i])) = distCalls[c].reliability

\* ---- C11 ---------------------------------------------------------------
\* the frames a step adds to what a connection has been sent
NewlySent(c) == outbox'[c] \ outbox[c]

\* C11: every node of a peer_discovery_result is, as the query finds the rows,
\* online with capacity available and a reputation of 70 or more, and the nodes are
\* listed in descending order of reputation
C11_DiscoveryListsEligibleNodes ==
    [][\A c \in ConnIds : \A o \in NewlySent(c) :
          o.type = "peer_discovery_result" =>
             /\ \A i \in DOMAIN o.peers :
                    /\ OnlineAndReputable(o.peers[i])
                    /\ storageNodes[o.peers[i]].storageAvailable > 0
             /\ \A i, j \in DOMAIN o.peers :
                    i < j => storageNodes[o.peers[i]].reputation
                                >= storageNodes[o.peers[j]].reputation]_vars

\* ---- C14 ---------------------------------------------------------------
\* the connection a chunk_response is addressed to cannot take it
Undeliverable(f) ==
    \/ MapGet(connectedPeers, f.targetPeerId) = 0
    \/ sock[MapGet(connectedPeers, f.targetPeerId)] # "open"

\* the sender of frame idx of connection c is sent a failure frame for it
ToldOfFailure(c, idx) ==
    \E o \in outbox'[c] : o.error /\ o.conn = c /\ o.idx = idx

\* a forward resumes after its insert
Forwards(p) ==
    \E inserted \in BOOLEAN :
        forwardToTargetPeer(p, inserted) \/ forwardToTargetPeerOld(p, inserted)

\* the socket a suspended forward is for
TargetOf(p) == IF impl = "tunnel" THEN MapGet(connectedPeers, p.target) ELSE p.targetConn

\* C14: the sender of a chunk_response that cannot be delivered to its addressee,
\* and the sender of a chunk_request whose target is in the maps with a socket no
\* longer open, is sent a failure frame
C14_ForwardFailureReported ==
    /\ [][\A c \in ConnIds : \A f \in ChunkResponses :
             (Authenticated(c) /\ Undeliverable(f) /\ Handles(c, f))
             => ToldOfFailure(c, frameCount'[c])]_vars
    /\ [][\A p \in pending :
             (/\ p.kind = "forward"
              /\ p.frame.type = "chunk_request"
              /\ TargetOf(p) # 0
              /\ sock[TargetOf(p)] # "open"
              /\ Forwards(p))
             => ToldOfFailure(p.conn, p.idx)]_vars

\* ---- C15 ---------------------------------------------------------------
\* C15: every chunk_request the tunnel of tunnel.ts forwards carries as its reply
\* address the peerId the tunnel gave at auth to the connection that sent it
C15_ReplyAddressIsSender ==
    impl = "tunnel" =>
        \A t \in ConnIds : \A o \in outbox[t] :
            o.type = "chunk_request" => o.peerId = peerIdOf[o.conn]

\* ---- C16 ---------------------------------------------------------------
\* C16: every chunk_request and chunk_response delivered to a target peer has its
\* row in peer_connections
C16_ForwardIsLogged ==
    \A t \in ConnIds : \A o \in outbox[t] :
        (o.type \in {"chunk_request", "chunk_response"} /\ ~o.error)
        => \E r \in peerConnections : r.conn = o.conn /\ r.idx = o.idx

\* ---- C17 ---------------------------------------------------------------
\* the authentication window of a connection is over
WindowElapsed(c) == sock[c] # "none" /\ now >= connectedAt[c] + AuthWindow

\* the timer callback of a connection runs in this step
TimeoutRuns(c) == ~timerFired[c] /\ timerFired'[c]

\* C17: a connection that has not completed authentication when its window of 10 s
\* is over is closed by the timeout and leaves the connection map, so none stays
\* open past the window with no timeout left to close it; the timeout leaves a
\* connection that has authenticated open and in the map
C17_AuthTimeout ==
    /\ [](\A c \in ConnIds :
             (WindowElapsed(c) /\ sock[c] = "open" /\ peerIdOf[c] = "") => TimeoutArmed(c))
    /\ [][\A c \in ConnIds :
             TimeoutRuns(c) =>
                IF peerIdOf[c] = ""
                THEN sock'[c] # "open" /\ \A k \in DOMAIN connectedPeers' : connectedPeers'[k] # c
                ELSE sock'[c] = sock[c] /\ connectedPeers' = connectedPeers]_vars

\* ---- C18 ---------------------------------------------------------------
\* the types the 'message' listener has a case for
KnownTypes ==
    IF impl = "tunnel"
    THEN {"heartbeat_ack", "peer_discovery", "chunk_request", "chunk_response", "node_metrics"}
    ELSE {"peer_discovery", "chunk_request", "chunk_response", "heartbeat", "status_update"}

\* the metadata is as it was, but for the lastActive of one peer
SameButLastActive(before, after, peerId) ==
    /\ Len(after) = Len(before)
    /\ \A i \in DOMAIN before :
           IF before[i].peerId = peerId
           THEN after[i] = [before[i] EXCEPT !.lastActive = after[i].lastActive]
           ELSE after[i] = before[i]

\* C18: a frame that does not parse, or one of a type the listener has no case
\* for, from an authenticated peer is dropped: the socket stays open, both maps
\* keep the peer, nothing is sent or forwarded, nothing is left to run, and no row
\* changes; only the lastActive of that peer may
C18_BadFrameDropped ==
    [][\A c \in ConnIds : \A f \in Frames(c) :
          (Authenticated(c) /\ f.type \notin KnownTypes /\ Handles(c, f))
          => /\ sock' = sock
             /\ listener' = listener
             /\ connectedPeers' = connectedPeers
             /\ SameButLastActive(peerMetadata, peerMetadata', peerIdOf[c])
             /\ outbox' = outbox
             /\ pending' = pending
             /\ storageNodes' = storageNodes
             /\ peerConnections' = peerConnections]_vars

\* in part_009, where a heartbeat is answered, the second frame of an authenticated
\* connection came after the clock had moved and got no answer; another peer, silent
\* since its authentication, is in the metadata too
C18_Witness ==
    \E c \in ConnIds :
        /\ impl = "part_009"
        /\ Authenticated(c)
        /\ frameCount[c] = 2
        /\ now > 0
        /\ lastFrameAt[c] = now
        /\ \A o \in outbox[c] : o.idx # 2
        /\ pending = {}
        /\ MapGet(connectedPeers, peerIdOf[c]) = c
        /\ MetaGet(peerMetadata, peerIdOf[c]) # 0
        /\ peerMetadata[MetaGet(peerMetadata, peerIdOf[c])].lastActive = now
        /\ \E i \in DOMAIN peerMetadata : peerMetadata[i].lastActive < now

\* ---- C21 ---------------------------------------------------------------
\* the chunks of the map marked available
MarkedAvailable(chunkMap) == Cardinality({i \in DOMAIN chunkMap : chunkMap[i]})

\* a data chunk is marked unavailable
DataChunkMissing(chunkMap, dataChunks) == \E i \in 1..dataChunks : ~chunkMap[i]

\* C21: decode fails with the insufficient-chunks error when fewer than dataChunks
\* chunks are marked available, fails whenever a data chunk is unavailable, enough
\* parity chunks or not, and with every data chunk available returns the original
\* bytes: the data chunks concatenated and cut to originalSize
C21_DecodeFailsOrReturnsOriginal ==
    ecPc \in {"decoded", "decodeThrew"} =>
        /\ MarkedAvailable(ecMap) < Layout.dataChunks
              => /\ ecPc = "decodeThrew"
                 /\ DecodeError(ecMap, Layout.dataChunks) = "insufficient"
        /\ DataChunkMissing(ecMap, Layout.dataChunks) => ecPc = "decodeThrew" /\ ecOut = <<>>
        /\ ~DataChunkMissing(ecMap, Layout.dataChunks)
              => /\ ecPc = "decoded"
                 /\ DecodeError(ecMap, Layout.dataChunks) = "none"
                 /\ ecOut = ecData
                 /\ Len(ecOut) = Len(ecData)

\* decode has failed with one data chunk missing and parity chunks enough to
\* make up the number
C21_Witness ==
    /\ ecPc = "decodeThrew"
    /\ ~ecMap[1]
    /\ MarkedAvailable(ecMap) >= Layout.dataChunks
    /\ Len(ecData) = MaxLen

\* ---- C22 ---------------------------------------------------------------
\* the file has one row per fragment index, and a fragment index has at most one
\* placement on a node
OneRowPerFragment ==
    /\ \A r, q \in fileChunks :
           (r.fileId = q.fileId /\ r.chunkIndex = q.chunkIndex) => r = q
    /\ \A x, y \in chunkPlacements :
           \A r, q \in fileChunks :
               (/\ r.id = x.chunkId /\ q.id = y.chunkId
                /\ r.fileId = q.fileId /\ r.chunkIndex = q.chunkIndex
                /\ x.nodeId = y.nodeId)
               => x = y

\* C22: a distribute call made for a file after an earlier call for it has failed
\* marks the existing rows again: when it has ended the file has exactly one
\* fragment row per index and at most one placement per fragment and node
C22_RedriveKeepsRowsUnique ==
    \A c \in DistCallIds :
        (distCalls[c].pc = "done" /\ distCalls[c].redrive /\ distCalls[c].fileId = TheFile)
            => OneRowPerFragment

\* the moving average x has the value v
DecEq(x, v) == x.n = v * Pow10(x.e)

\* a score with the defaults of a node that has no history
DefaultMetrics(s) ==
    /\ DecEq(s.uptime, 100)
    /\ DecEq(s.responseTime, 500)
    /\ s.totalChunksStored = 0
    /\ s.successfulRetrievals = 0
    /\ s.failedRetrievals = 0

UptimeOk == [eventType |-> "uptime_check", successful |-> TRUE, responseTime |-> NoDetail]
Latency400 == [eventType |-> "latency_check", successful |-> TRUE, responseTime |-> 400]

\* round(0.4 * 100 + 0.2 * clamp(100 - (490 - 500) / 45, 0, 100) + 0.3 * 100 + 0.1 * 100)
ScenarioScore ==
    Round(WeightedSum(Dec(100), Clamp100(Frac(100 * 45 - (490 - 500), 45)),
                      Frac(100, 1), Frac(100, 1)))

\* C28: from the defaults (uptime 100, responseTime 500, no retrievals, no stored
\* chunks) the events uptime_check(success), uptime_check(success),
\* latency_check(400 ms), in that order, leave uptime 100 and responseTime 490,
\* and the score is the rounded weighted sum of these values, which is 100.
C28_DefaultsScenario ==
    (DefaultMetrics(repInit) /\ repApplied = <<UptimeOk, UptimeOk, Latency400>>)
        => /\ DecEq(repStore.uptime, 100)
           /\ DecEq(repStore.responseTime, 490)
           /\ repStore.score = ScenarioScore
           /\ repStore.score = 100

C28_Witness ==
    /\ DefaultMetrics(repInit)
    /\ repApplied = <<UptimeOk, UptimeOk, Latency400>>
    /\ repStore.successfulRetrievals = 0
    /\ repStore.totalChunksStored = 0

\* C25: whatever frames the peers send (node_metrics and status_update frames
\* with values of their choosing among them), storageAvailable of every storage
\* node is at least 0.
C25_StorageAvailableNotNegative ==
    \A n \in NodeIds : storageNodes[n].storageAvailable >= 0

\* C26: no step of the tunnel (auth, heartbeat, discovery, chunk forwarding,
\* metrics or status update, close, health sweep) changes the reputation or the
\* uptime percentage of a storage node.
C26_TunnelLeavesReputationAlone ==
    [][\A n \in NodeIds :
          /\ storageNodes'[n].reputation = storageNodes[n].reputation
          /\ storageNodes'[n].uptimePercentage = storageNodes[n].uptimePercentage]_vars

\* C29: two different open authenticated connections never have the same peerId
\* (tunnel.ts): authenticating a second connection, with a nodeId that is already
\* connected or with the placeholder nodeId of the browser client, never takes
\* the place of the entry of another live connection in the maps.
C29_PeerIdsAreUnique ==
    impl = "tunnel" =>
        \A c \in ConnIds : \A d \in ConnIds \ {c} :
            (Authenticated(c) /\ Authenticated(d)) => peerIdOf[c] # peerIdOf[d]

\* connection d is the one the maps hold under its peerId
Registered(d) ==
    /\ Authenticated(d)
    /\ MapGet(connectedPeers, peerIdOf[d]) = d
    /\ MetaGet(peerMetadata, peerIdOf[d]) # 0

\* updateNodeStatus(nodeId, 'offline') is called in the step
MarksOffline(nodeId) ==
    \E p \in pending' \ pending : p.kind = "offline" /\ p.nodeId = nodeId

\* C30: the close event of a connection (tunnel.ts) neither evicts another
\* connection that is open, authenticated and in the maps, nor marks the storage
\* node of that connection offline.
C30_CloseSparesLiveConnection ==
    [][\A c \in ConnIds : \A d \in ConnIds \ {c} :
          (Registered(d) /\ closeHandler(c))
              => /\ MapGet(connectedPeers', peerIdOf[d]) = d
                 /\ MetaGet(peerMetadata', peerIdOf[d]) # 0
                 /\ peerMetadata[MetaGet(peerMetadata, peerIdOf[d])].nodeId # "browser-client"
                       => ~MarksOffline(peerMetadata[MetaGet(peerMetadata, peerIdOf[d])].nodeId)]_vars

\* the rows file_chunks has for the file of a call
RowsOf(c) == {r \in fileChunks : r.fileId = retCalls[c].fileId}
DataRowsOf(c) == {r \in RowsOf(c) : r.chunkType = "data"}

\* a call of the owner of the file that has ended and found rows
OwnerCallEnded(c) ==
    /\ retCalls[c].pc = "done"
    /\ retCalls[c].fileId \in DOMAIN files
    /\ files[retCalls[c].fileId].userId = retCalls[c].userId
    /\ RowsOf(c) # {}

\* C23: for a file of the caller, retrieve fails with the insufficient-fragments
\* error when a data fragment of the file is not available, and succeeds when
\* they all are: a data fragment that is still pending is not available, and a
\* file whose data fragments all have status verified is retrieved.
C23_RetrieveNeedsAvailableData ==
    \A c \in RetCallIds :
        OwnerCallEnded(c) =>
            /\ (\E r \in DataRowsOf(c) : r.status = "pending") => retCalls[c].result = "insufficient"
            /\ (\A r \in DataRowsOf(c) : r.status = "verified") => retCalls[c].result = "success"

\* C24: a retrieve call for a file of another user ends in its first step with
\* the not-found error, whatever rows file_chunks and chunk_placements have, and
\* the step changes no row of files, file_chunks or chunk_placements.
C24_NotOwnerNotFound ==
    [][\A c \in RetCallIds :
          (/\ retCalls'[c] # retCalls[c]
           /\ retCalls'[c].fileId \in DOMAIN files
           /\ files[retCalls'[c].fileId].userId # retCalls'[c].userId)
              => /\ retCalls'[c].pc = "done"
                 /\ retCalls'[c].result = "notFound"
                 /\ files' = files
                 /\ fileChunks' = fileChunks
                 /\ chunkPlacements' = chunkPlacements]_vars

C24_Witness ==
    \E c \in RetCallIds :
        /\ retCalls[c].pc = "done"
        /\ retCalls[c].result = "notFound"
        /\ retCalls[c].fileId = TheFile
        /\ retCalls[c].userId # files[TheFile].userId
        /\ \A r \in fileChunks : r.status = "stored"
        /\ chunkPlacements # {}

\* C27: a discoverPeers call is pending for at most 10 s and a requestChunk call
\* for at most 30 s, whether its connection closes or frames that are not its
\* response arrive in the meantime; a call that is resolved has received its
\* response on its socket, and a call that is rejected was rejected for no open
\* socket, an error response or the timeout.
C27_CallsSettleInTime ==
    \A c \in CliCallIds :
        /\ cliCalls[c].state = "pending"
              => cliNow <= cliCalls[c].startedAt + (IF cliCalls[c].kind = "discovery"
                                                    THEN 10000 ELSE 30000)
        /\ cliCalls[c].state = "resolved"
              => \E m \in cliInbox :
                    /\ m.gen = cliCalls[c].gen
                    /\ \/ cliCalls[c].kind = "discovery" /\ m.frame.type = "peer_discovery_result"
                       \/ /\ cliCalls[c].kind = "chunk"
                          /\ m.frame.type = "chunk_response"
                          /\ m.frame.chunkId = cliCalls[c].chunkId
                          /\ ~m.frame.error
        /\ cliCalls[c].state = "rejected"
              => cliCalls[c].reason \in {"notConnected", "errorResponse", "timeout"}

\* a requestChunk call whose connection closed while it waited, after a frame
\* that was not its response, and which its timer rejected after 30 s; and a
\* discoverPeers call which its timer rejected
C27_Witness ==
    \E c \in CliCallIds : \E d \in CliCallIds :
        /\ cliCalls[c].kind = "chunk"
        /\ cliCalls[c].state = "rejected"
        /\ cliCalls[c].reason = "timeout"
        /\ cliCalls[c].gen < socketGen
        /\ cliNow = cliCalls[c].startedAt + 30000
        /\ \E m \in cliInbox : m.gen = cliCalls[c].gen /\ m.frame.type = "heartbeat"
        /\ cliCalls[d].kind = "discovery"
        /\ cliCalls[d].state = "rejected"
        /\ cliCalls[d].reason = "timeout"

\* ---- C40 ---------------------------------------------------------------
\* the fields of a score other than score (lastUpdated is not modelled)
MetricFields ==
    {"uptime", "responseTime", "totalChunksStored", "successfulRetrievals", "failedRetrievals"}

\* the metric an event may change
Designated(ev) ==
    CASE ev.eventType = "chunk_stored" -> {"totalChunksStored"}
      [] ev.eventType = "chunk_retrieved" ->
           IF ev.successful THEN {"successfulRetrievals"} ELSE {"failedRetrievals"}
      [] ev.eventType = "chunk_lost" -> {"failedRetrievals"}
      [] ev.eventType = "uptime_check" -> {"uptime"}
      [] ev.eventType = "latency_check" ->
           IF ev.responseTime = NoDetail THEN {} ELSE {"responseTime"}

\* C40: a recordEvent changes, besides score, only the metric its event type
\* designates: chunk_stored the stored count, chunk_retrieved the successful or
\* the failed counter by outcome, chunk_lost the failed counter, uptime_check
\* uptime, latency_check responseTime and only if a response time is supplied;
\* a counter that changes goes up by one, and the score passed in is as it was.
C40_OnlyDesignatedMetric ==
    [][Len(repApplied') = Len(repApplied) + 1 =>
          LET ev == repApplied'[Len(repApplied')]
          IN  /\ \A k \in MetricFields \ Designated(ev) : repStore'[k] = repStore[k]
              /\ \A k \in Designated(ev) \ {"uptime", "responseTime"} :
                     repStore'[k] = repStore[k] + 1
              /\ repLast'[1].before = repStore
              /\ repLast'[1].event = ev]_vars

\* a lost chunk, a failed retrieval and a latency check without a response time
\* have been recorded
C40_Witness ==
    /\ Len(repApplied) = 3
    /\ \E i \in DOMAIN repApplied : repApplied[i].eventType = "chunk_lost"
    /\ \E i \in DOMAIN repApplied :
          repApplied[i].eventType = "chunk_retrieved" /\ ~repApplied[i].successful
    /\ \E i \in DOMAIN repApplied :
          repApplied[i].eventType = "latency_check" /\ repApplied[i].responseTime = NoDetail
    /\ repStore.failedRetrievals = repInit.failedRetrievals + 2

\* ---- C34 ---------------------------------------------------------------
\* C34: recording a successful chunk_retrieved never lowers the composite score,
\* and recording a failed chunk_retrieved or a chunk_lost never raises it.
C34_RetrievalsMoveScoreTheirWay ==
    [][Len(repApplied') = Len(repApplied) + 1 =>
          LET ev == repApplied'[Len(repApplied')]
          IN  /\ (ev.eventType = "chunk_retrieved" /\ ev.successful)
                    => repStore'.score >= repStore.score
              /\ (ev.eventType = "chunk_lost" \/ (ev.eventType = "chunk_retrieved" /\ ~ev.successful))
                    => repStore'.score <= repStore.score]_vars

\* ---- C35 ---------------------------------------------------------------
\* a chunk with a byte that is not 0
NonZero(chunk) == \E k \in DOMAIN chunk : chunk[k] # 0

\* C35: under every layout calculateOptimalChunks returns, each data fragment is
\* XORed into at least one parity fragment: when one data fragment alone has
\* content, the content shows in some parity fragment.
C35_EveryDataFragmentInParity ==
    ecPc = "encoded" =>
        \A j \in 1..Layout.dataChunks :
            (/\ NonZero(ecChunks[j])
             /\ \A h \in (1..Layout.dataChunks) \ {j} : ~NonZero(ecChunks[h]))
                => \E i \in (Layout.dataChunks + 1)..Len(ecChunks) : NonZero(ecChunks[i])

\* ---- C32 ---------------------------------------------------------------
\* no distribute call is under way
DistAtRest == \A c \in DistCallIds : distCalls[c].pc \in {"idle", "done"}

\* C32: however distribute calls on a file interleave or follow each other,
\* while the status of the file is backed_up every fragment row of the file has
\* a placement; and once a call has returned success the file does not come to
\* rest in pending or backing_up through another call.
C32_BackedUpMeansPlaced ==
    /\ files[TheFile].status = "backed_up"
          => \A r \in fileChunks :
                 r.fileId = TheFile => \E p \in chunkPlacements : p.chunkId = r.id
    /\ (DistAtRest /\ \E c \in DistCallIds :
            distCalls[c].result = "success" /\ distCalls[c].fileId = TheFile)
          => files[TheFile].status = "backed_up"

\* ---- C31 ---------------------------------------------------------------
\* the close event of the connection has been handled and nothing of its
\* handlers is suspended
ClosedAndDone(c) == sock[c] = "closed" /\ \A p \in pending : p.conn # c

\* no other connection was registered under the peerId of c
SolePeer(c) == \A d \in ConnIds \ {c} : peerIdOf[d] # peerIdOf[c]

\* C31: once the close event of a connection has been handled and its auth
\* processing has finished (tunnel.ts), the connection map has no entry for it,
\* the metadata map has no entry under its peerId and its node is not online
\* through it, also when the socket closed while the auth frame was suspended
\* on the update of the node's status.
C31_NothingLeftAfterClose ==
    impl = "tunnel" =>
        \A c \in ConnIds :
            ClosedAndDone(c) =>
                /\ \A k \in DOMAIN connectedPeers : connectedPeers[k] # c
                /\ (peerIdOf[c] # "" /\ SolePeer(c))
                      => /\ MetaGet(peerMetadata, peerIdOf[c]) = 0
                         /\ \A n \in NodeIds :
                                NodeName(n) = peerIdOf[c] => storageNodes[n].status # "online"

\* ---- C33 ---------------------------------------------------------------
\* C33: a connection that has not completed authentication and is still in the
\* connection map under its temporary id (tunnel.ts) has received no frame other
\* than auth_error.
C33_NothingBeforeAuth ==
    impl = "tunnel" =>
        \A c \in ConnIds :
            (TempId(c) \in DOMAIN connectedPeers /\ peerIdOf[c] = "")
                => \A o \in outbox[c] : o.type = "auth_error"


\* ---- C37 ---------------------------------------------------------------
\* C37: after the application has called disconnect() and until it calls
\* connect() again, the client has no socket and no reconnect timer is set: the
\* close of the socket that disconnect() closed schedules no reconnect.
C37_DisconnectStaysClosed ==
    userClosed => (socket = 0 /\ timers = {})

\* ---- C38 ---------------------------------------------------------------
\* C38: after every step the client has at most one open socket and, if the
\* socket it created last is connecting or open, this.socket refers to it; and
\* no step taken while that socket is connecting or open sets a reconnect
\* timer: the close event of a socket that connect() replaced neither clears
\* the reference to its successor nor schedules a reconnect beside it.
C38_OneLiveSocket ==
    [][/\ Cardinality({g \in SocketIds : wsState'[g] = "open"}) <= 1
       /\ (socketGen' > 0 /\ wsState'[socketGen'] \in {"connecting", "open"})
             => socket' = socketGen'
       /\ (socketGen > 0 /\ wsState[socketGen] \in {"connecting", "open"})
             => timers' \subseteq timers]_vars

\* ---- C39 ---------------------------------------------------------------
\* the delay of the n-th reconnect attempt in a row (n from 0), in ms
BackoffDelay(n) == IF 1000 * Pow2(n) < 30000 THEN 1000 * Pow2(n) ELSE 30000

\* C39: the client schedules at most 5 reconnects in a row without an
\* auth_success in between, and the timer of the n-th of them (n from 0) is set
\* min(1000 * 2^n, 30000) ms ahead, also when every connection opens and then
\* closes.
C39_ReconnectsAreBounded ==
    [][/\ autoReconnects' <= 5
       /\ \A t \in timers' \ timers : t.due = cliNow + BackoffDelay(autoReconnects)]_vars


\* ---- C36 ---------------------------------------------------------------
\* a processFileForDistribution call has returned success and the file is backed_up
DistributedOk ==
    /\ files[TheFile].status = "backed_up"
    /\ \E c \in DistCallIds :
          distCalls[c].pc = "done" /\ distCalls[c].result = "success" /\ distCalls[c].fileId = TheFile

\* a retrieveFile call of the owner has returned the file
RetrievedOk ==
    \E c \in RetCallIds :
        /\ retCalls[c].pc = "done"
        /\ retCalls[c].result = "success"
        /\ retCalls[c].fileId = TheFile
        /\ retCalls[c].userId = files[TheFile].userId

\* C36: once processFileForDistribution has returned success for a file and left
\* it backed_up, a retrieveFile call of its owner succeeds in the end, the owner
\* calling again after every call that threw.
C36_DistributedFileIsRetrieved == DistributedOk ~> RetrievedOk

============================================================================
